---- MODULE Spec2Model ----
(***************************************************************************)
(* A model of the openusage probe orchestrator (src-tauri/src/lib.rs):     *)
(* start_probe_batch and its workers, the credential overlay builder with  *)
(* its process-wide cache, and the pure rules they rest on.                *)
(*                                                                         *)
(* Conventions.  Option<T> is a sequence of length 0 (None) or 1 (Some).   *)
(* A Rust String whose characters matter (it is trimmed or concatenated)   *)
(* is a sequence of tokens, each token a run of characters; " " is the     *)
(* whitespace token and "::" the separator of the cache key.  Plugin ids   *)
(* are compared whole and are plain strings.  An i64 is a triple           *)
(* <<h, m, l>> standing for h*10^12 + m*10^6 + l with 0 <= m, l < 10^6.     *)
(***************************************************************************)
EXTENDS Integers, Sequences, FiniteSets, TLC

VARIABLES
    loaded,            \* AppState.plugins: the loaded plugins, sorted by id
    cache,             \* AppState.cliproxy_credential_cache: key -> payload
    now,               \* the wall clock in ms (OffsetDateTime::now_utc)
    budget,            \* start_probe_batch invocations the caller still makes
    slots,             \* the slots the caller uses: how many batches overlap
    bpc,               \* per batch: where start_probe_batch stands
    req,               \* per batch: the arguments of the invocation
    batch_id,          \* per batch: the normalised batch id
    selected_plugins,  \* per batch: the effective plugin list
    response,          \* per batch: Option of the value start returned
    config,            \* per batch: Option of the loaded CliProxyConfig
    auth_files,        \* per batch: the remote catalog fetched for the batch
    cursor,            \* per batch: index of the plugin a loop stands at
    pending,           \* per batch: Option of a resolve between miss and store
    prepared_overlays, \* per batch: plugin id -> PreparedCredentialOverlay
    overlay_errors,    \* per batch: plugin id -> error message
    overlays,          \* per batch: plugin id -> the shared overlay map
    remaining,         \* per batch: Option of the AtomicUsize counter
    wpc,               \* per batch: worker index -> position of the worker
    wresult,           \* per batch: worker index -> result of catch_unwind
    events,            \* per batch: the events emitted, in emission order
    observed,          \* per batch: worker index -> value fetch_sub returned
    sandbox,           \* per batch: worker indexes that entered run_probe
    trace,             \* per batch: steps the last resolve call performed
    fn_in,             \* argument of a pure function under check
    fn_out,            \* Option of its result
    locks              \* the mutex guards alive: which thread holds which lock

vars == << loaded, cache, now, budget, slots, bpc, req, batch_id, selected_plugins,
           response, config, auth_files, cursor, pending, prepared_overlays,
           overlay_errors, overlays, remaining, wpc, wresult, events,
           observed, sandbox, trace, fn_in, fn_out, locks >>

batchVars == << loaded, cache, now, budget, slots, bpc, req, batch_id,
                selected_plugins, response, config, auth_files, cursor,
                pending, prepared_overlays, overlay_errors, overlays,
                remaining, wpc, wresult, events, observed, sandbox, trace,
                locks >>

(***************************************************************************)
(* Bounds of the model.                                                    *)
(***************************************************************************)
MaxStarts == 2
MaxRequested == 3

\* the slots a running start_probe_batch and its workers occupy
Batches == {1, 2}

(***************************************************************************)
(* Option, maps, strings.                                                  *)
(***************************************************************************)
None == << >>
Some(x) == << x >>
IsSome(o) == o # << >>
Unwrap(o) == o[1]

EmptyMap == [k \in {} |-> << >>]
MapInsert(m, k, v) == [x \in DOMAIN m \cup {k} |-> IF x = k THEN v ELSE m[x]]
MapRemove(m, k) == [x \in DOMAIN m \ {k} |-> m[x]]
MapGet(m, k) == IF k \in DOMAIN m THEN Some(m[k]) ELSE None

RECURSIVE TrimStart(_)
TrimStart(s) ==
    IF s # << >> /\ Head(s) = " " THEN TrimStart(Tail(s)) ELSE s

RECURSIVE TrimEnd(_)
TrimEnd(s) ==
    IF s # << >> /\ s[Len(s)] = " "
    THEN TrimEnd(SubSeq(s, 1, Len(s) - 1))
    ELSE s

\* str::trim
Trim(s) == TrimEnd(TrimStart(s))

(***************************************************************************)
(* 64-bit integers in three decimal limbs.                                 *)
(***************************************************************************)
Limb == 1000 * 1000

BigNorm(h, m, l) ==
    LET m1 == m + (l \div Limb)
    IN  << h + (m1 \div Limb), m1 % Limb, l % Limb >>

BigOfInt(n) == BigNorm(0, 0, n)
BigAdd(a, b) == BigNorm(a[1] + b[1], a[2] + b[2], a[3] + b[3])
BigGt(a, b) ==
    \/ a[1] > b[1]
    \/ a[1] = b[1] /\ a[2] > b[2]
    \/ a[1] = b[1] /\ a[2] = b[2] /\ a[3] > b[3]
BigGe(a, b) == a = b \/ BigGt(a, b)
\* a * 1000, for |a| below 2 * 10^18
BigMul1000(a) == BigNorm(a[1] * 1000, a[2] * 1000, a[3] * 1000)

BigZero == << 0, 0, 0 >>
I64Max == << 9223372, 36854, 775807 >>
I64Min == << -9223373, 963145, 224192 >>
InI64(a) == BigGe(a, I64Min) /\ BigGe(I64Max, a)

\* 10_000_000_000: above it an epoch is taken to be in milliseconds
EpochMsThreshold == << 0, 10000, 0 >>
\* min_ttl_ms
MIN_TTL_MS == 60000

(***************************************************************************)
(* JSON.  A text handed to serde_json::from_str is [ok, root]: ok is       *)
(* whether it parses, root the parsed value.  A value is a record with a   *)
(* tag t.  A string value carries a literal [pad, k, v]: pad is whether    *)
(* whitespace surrounds it, k what its trimmed text is ("empty", "int" a   *)
(* decimal integer of value v, "rfc3339" a timestamp at v ms of the epoch, *)
(* "text" anything else).                                                  *)
(***************************************************************************)
JNull == [t |-> "null"]
JNum(v) == [t |-> "num", v |-> v]
JFloat == [t |-> "float"]
JStr(lit) == [t |-> "str", s |-> lit]
JObj(f) == [t |-> "obj", f |-> f]
JArr == [t |-> "arr"]

Lit(pad, k, v) == [pad |-> pad, k |-> k, v |-> v]
Text(name) == [pad |-> FALSE, k |-> "text", v |-> BigZero, id |-> name]

Malformed == [ok |-> FALSE, root |-> JNull]
Doc(root) == [ok |-> TRUE, root |-> root]

\* str::trim on a literal
LitTrim(lit) == [lit EXCEPT !.pad = FALSE]
\* str::parse::<i64>
ParseI64(lit) ==
    IF ~lit.pad /\ lit.k = "int" /\ InI64(lit.v) THEN Some(lit.v) ELSE None

\* serde_json::Number::as_i64, else as_u64 narrowed with i64::try_from
NumberAsI64(value) ==
    IF value.t = "num" /\ InI64(value.v) THEN Some(value.v) ELSE None

\* the unit rule shared by parse_epoch_to_ms and the gemini freshness check
EpochToMs(parsed) ==
    IF BigGt(parsed, EpochMsThreshold) THEN Some(parsed)
    ELSE IF BigGt(parsed, BigZero) THEN Some(BigMul1000(parsed))
    ELSE None

ParseEpochToMs(lit) ==
    LET parsed == ParseI64(LitTrim(lit))
    IN  IF parsed = None THEN None ELSE EpochToMs(Unwrap(parsed))

(***************************************************************************)
(* should_use_cached_overlay (lib.rs 537-586).                             *)
(***************************************************************************)
AntigravityExpiry(object) ==
    LET field == MapGet(object, "expiresAtMs")
    IN  IF field = None THEN None
        ELSE IF Unwrap(field).t = "num" THEN NumberAsI64(Unwrap(field))
        ELSE IF Unwrap(field).t = "str" THEN ParseI64(LitTrim(Unwrap(field).s))
        ELSE None

GeminiExpiry(object) ==
    LET field == IF "expiry_date" \in DOMAIN object
                 THEN MapGet(object, "expiry_date")
                 ELSE MapGet(object, "expiryDate")
    IN  IF field = None THEN None
        ELSE IF Unwrap(field).t = "num"
        THEN LET raw == NumberAsI64(Unwrap(field))
             IN  IF raw = None THEN None ELSE EpochToMs(Unwrap(raw))
        ELSE IF Unwrap(field).t = "str" THEN ParseEpochToMs(Unwrap(field).s)
        ELSE None

CachedExpiryMs(plugin_id, object) ==
    CASE plugin_id = "antigravity" -> AntigravityExpiry(object)
      [] plugin_id = "gemini" -> GeminiExpiry(object)
      [] OTHER -> None

\* an expiry at the margin accepted
FreshEnough_Inclusive(expires_at_ms, now_ms) ==
    BigGe(expires_at_ms, BigAdd(now_ms, BigOfInt(MIN_TTL_MS)))

\* lines 582-585
FreshEnough(expires_at_ms, now_ms) ==
    BigGt(expires_at_ms, BigAdd(now_ms, BigOfInt(MIN_TTL_MS)))

ShouldUseCachedOverlay(plugin_id, transformed, now_ms) ==
    IF plugin_id # "antigravity" /\ plugin_id # "gemini" THEN TRUE
    ELSE IF ~transformed.ok THEN FALSE
    ELSE IF transformed.root.t # "obj" THEN FALSE
    ELSE LET expires_at_ms == CachedExpiryMs(plugin_id, transformed.root.f)
         IN  IF expires_at_ms = None THEN FALSE
             ELSE FreshEnough(Unwrap(expires_at_ms), now_ms)

(***************************************************************************)
(* The normalisers (lib.rs 242-535).                                       *)
(***************************************************************************)
\* a string of whitespace taken for a value
ValueToString_KeepsBlank(value) ==
    IF value = None THEN None
    ELSE LET v == Unwrap(value)
         IN  CASE v.t = "str" -> Some(LitTrim(v.s))
               [] v.t = "num" -> Some(Lit(FALSE, "int", v.v))
               [] v.t = "float" -> Some(Text("float"))
               [] v.t = "bool" -> Some(Text("bool"))
               [] OTHER -> None

\* value_to_string
ValueToString(value) ==
    IF value = None THEN None
    ELSE LET v == Unwrap(value)
         IN  CASE v.t = "str" ->
                    IF v.s.k = "empty" THEN None ELSE Some(LitTrim(v.s))
               [] v.t = "num" -> Some(Lit(FALSE, "int", v.v))
               [] v.t = "float" -> Some(Text("float"))
               [] v.t = "bool" -> Some(Text("bool"))
               [] OTHER -> None

\* read_string_field: the first key whose value is a usable string
RECURSIVE ReadStringField(_, _)
ReadStringField(object, keys) ==
    IF keys = << >> THEN None
    ELSE LET r == ValueToString(MapGet(object, Head(keys)))
         IN  IF IsSome(r) THEN r ELSE ReadStringField(object, Tail(keys))

OrElse(a, b) == IF IsSome(a) THEN a ELSE b

\* parse_expiry_ms: an RFC 3339 timestamp in ms of the epoch, else 0
ParseExpiryMs(expired) ==
    IF ~expired.pad /\ expired.k = "rfc3339" /\ InI64(expired.v)
    THEN expired.v
    ELSE BigZero

\* a / 1000 for a >= 0
BigDiv1000(a) ==
    BigNorm(0, a[1] * 1000 + (a[2] \div 1000),
            (a[2] % 1000) * 1000 + (a[3] \div 1000))

\* parse_expiry_seconds
ParseExpirySeconds(expired) ==
    LET ms == ParseExpiryMs(expired)
    IN  IF ~BigGt(ms, BigZero) THEN BigZero ELSE BigDiv1000(ms)

AccessKeys == << "access_token", "accessToken" >>
RefreshKeys == << "refresh_token", "refreshToken" >>
ExpiredKeys == << "expired", "expires_at", "expiresAt" >>
TtlKeys == << "expires_in", "expiresIn" >>
DEFAULT_TTL_SEC == 3600

\* the largest and the smallest i64 whose product with 1000 is an i64
Mul1000Max == << 9223, 372036, 854775 >>
Mul1000Min == << -9224, 627963, 145225 >>

\* base_ms + (ttl_sec * 1000) in i64: None when the arithmetic overflows
TtlExpiry(base_ms, ttl_sec) ==
    IF BigGt(ttl_sec, Mul1000Max) \/ BigGt(Mul1000Min, ttl_sec) THEN None
    ELSE LET sum == BigAdd(base_ms, BigMul1000(ttl_sec))
         IN  IF InI64(sum) THEN Some(sum) ELSE None

ParsedTtl(source) ==
    IF source = None THEN None ELSE ParseI64(Unwrap(source))

TransformOk(object) == [ok |-> TRUE, fault |-> FALSE, err |-> "",
                        val |-> Doc(JObj(object))]
TransformErr(msg) == [ok |-> FALSE, fault |-> FALSE, err |-> msg,
                      val |-> Malformed]
\* the i64 arithmetic overflowed: a panic or a wrapped value, by the build
TransformOverflow == [ok |-> FALSE, fault |-> TRUE, err |-> "overflow",
                      val |-> Malformed]

PutStr(object, key, lit) == MapInsert(object, key, JStr(lit))
PutOpt(object, key, opt) ==
    IF IsSome(opt) THEN PutStr(object, key, Unwrap(opt)) ELSE object

TransformCodex(object, now_ms) ==
    LET access_token == ReadStringField(object, AccessKeys)
        refresh_token == ReadStringField(object, RefreshKeys)
        id_token == ReadStringField(object, << "id_token", "idToken" >>)
        account_id == ReadStringField(object, << "account_id", "accountId" >>)
        last == ReadStringField(object, << "last_refresh", "lastRefresh" >>)
        last_refresh == IF IsSome(last) THEN Unwrap(last)
                        ELSE Lit(FALSE, "rfc3339", now_ms)
        tokens == PutOpt(PutOpt(PutStr(PutStr(EmptyMap,
                      "access_token", Unwrap(access_token)),
                      "refresh_token", Unwrap(refresh_token)),
                      "id_token", id_token), "account_id", account_id)
    IN  IF access_token = None THEN TransformErr("missing access_token")
        ELSE IF refresh_token = None THEN TransformErr("missing refresh_token")
        ELSE TransformOk(PutStr(MapInsert(EmptyMap, "tokens", JObj(tokens)),
                                "last_refresh", last_refresh))

TransformClaude(object) ==
    LET access_token == ReadStringField(object, AccessKeys)
        refresh_token == ReadStringField(object, RefreshKeys)
        raw == ReadStringField(object, ExpiredKeys)
        expires_at == IF IsSome(raw) THEN ParseExpiryMs(Unwrap(raw))
                      ELSE BigZero
        oauth == MapInsert(PutStr(PutStr(EmptyMap,
                     "accessToken", Unwrap(access_token)),
                     "refreshToken", Unwrap(refresh_token)),
                     "expiresAt", JNum(expires_at))
    IN  IF access_token = None THEN TransformErr("missing access_token")
        ELSE IF refresh_token = None THEN TransformErr("missing refresh_token")
        ELSE TransformOk(MapInsert(EmptyMap, "claudeAiOauth", JObj(oauth)))

TransformKimi(object) ==
    LET access_token == ReadStringField(object, AccessKeys)
        refresh_token == ReadStringField(object, RefreshKeys)
        tt == ReadStringField(object, << "token_type", "tokenType" >>)
        token_type == IF IsSome(tt) THEN Unwrap(tt) ELSE Text("Bearer")
        scope == ReadStringField(object, << "scope" >>)
        device_id == ReadStringField(object, << "device_id", "deviceId" >>)
        expired == ReadStringField(object, ExpiredKeys)
        literal == ParsedTtl(
                       ReadStringField(object, << "expires_at", "expiresAt" >>))
        expires_at == IF IsSome(literal) THEN Unwrap(literal)
                      ELSE IF IsSome(expired)
                      THEN ParseExpirySeconds(Unwrap(expired))
                      ELSE BigZero
        out == PutOpt(PutOpt(PutOpt(MapInsert(PutStr(PutStr(PutStr(EmptyMap,
                   "access_token", Unwrap(access_token)),
                   "refresh_token", Unwrap(refresh_token)),
                   "token_type", token_type),
                   "expires_at", JNum(expires_at)),
                   "scope", scope), "device_id", device_id), "expired", expired)
    IN  IF access_token = None THEN TransformErr("missing access_token")
        ELSE IF refresh_token = None THEN TransformErr("missing refresh_token")
        ELSE TransformOk(out)

\* the TTL fallback shared by antigravity and gemini
TtlFallback(ttl_source, now_ms) ==
    LET parsed == ParsedTtl(ttl_source)
        ttl_sec == IF IsSome(parsed) THEN Unwrap(parsed)
                   ELSE BigOfInt(DEFAULT_TTL_SEC)
    IN  TtlExpiry(now_ms, ttl_sec)

TransformAntigravity(object, now_ms) ==
    LET access_token == ReadStringField(object, AccessKeys)
        refresh_token == ReadStringField(object, RefreshKeys)
        expired == ReadStringField(object, ExpiredKeys)
        parsed == IF IsSome(expired) THEN ParseExpiryMs(Unwrap(expired))
                  ELSE BigZero
        expires_at_ms ==
            IF IsSome(expired) /\ BigGt(parsed, BigZero) THEN Some(parsed)
            ELSE TtlFallback(ReadStringField(object, TtlKeys), now_ms)
        out == PutOpt(PutOpt(PutOpt(MapInsert(PutStr(EmptyMap,
                   "accessToken", Unwrap(access_token)),
                   "expiresAtMs", JNum(Unwrap(expires_at_ms))),
                   "refreshToken", refresh_token),
                   "projectId",
                   ReadStringField(object, << "project_id", "projectId" >>)),
                   "email", ReadStringField(object, << "email" >>))
    IN  IF access_token = None THEN TransformErr("missing access_token")
        ELSE IF expires_at_ms = None THEN TransformOverflow
        ELSE TransformOk(out)

ReadNested(token_object, keys) ==
    IF token_object = None THEN None
    ELSE ReadStringField(Unwrap(token_object), keys)

\* Option::map(parse_expiry_ms).filter(|value| *value > 0)
PositiveExpiryMs(source) ==
    IF source = None THEN None
    ELSE IF BigGt(ParseExpiryMs(Unwrap(source)), BigZero)
    THEN Some(ParseExpiryMs(Unwrap(source)))
    ELSE None

EpochField(source) ==
    IF source = None THEN None ELSE ParseEpochToMs(Unwrap(source))

GeminiClientKeys ==
    << "client_id", "clientId", "oauth_client_id", "oauthClientId" >>
GeminiSecretKeys ==
    << "client_secret", "clientSecret", "oauth_client_secret",
       "oauthClientSecret" >>

TransformGemini(object, now_ms) ==
    LET token == MapGet(object, "token")
        token_object == IF IsSome(token) /\ Unwrap(token).t = "obj"
                        THEN Some(Unwrap(token).f) ELSE None
        access_token == OrElse(ReadStringField(object, AccessKeys),
                               ReadNested(token_object, AccessKeys))
        refresh_token == OrElse(ReadStringField(object, RefreshKeys),
                                ReadNested(token_object, RefreshKeys))
        DateKeys == << "expiry_date", "expiryDate" >>
        dated ==
            OrElse(EpochField(ReadStringField(object, DateKeys)),
            OrElse(EpochField(ReadNested(token_object, DateKeys)),
            OrElse(PositiveExpiryMs(ReadStringField(object, ExpiredKeys)),
                   PositiveExpiryMs(ReadNested(token_object,
                       << "expiry", "expired", "expires_at", "expiresAt" >>)))))
        ttl == OrElse(ParsedTtl(ReadStringField(object, TtlKeys)),
                      ParsedTtl(ReadNested(token_object, TtlKeys)))
        expiry_date_ms ==
            IF IsSome(dated) THEN dated
            ELSE TtlExpiry(now_ms, IF IsSome(ttl) THEN Unwrap(ttl)
                                   ELSE BigOfInt(DEFAULT_TTL_SEC))
        IdKeys == << "id_token", "idToken" >>
        out == PutOpt(PutOpt(PutOpt(MapInsert(PutOpt(PutOpt(EmptyMap,
                   "access_token", access_token),
                   "refresh_token", refresh_token),
                   "expiry_date", JNum(Unwrap(expiry_date_ms))),
                   "id_token", OrElse(ReadStringField(object, IdKeys),
                                      ReadNested(token_object, IdKeys))),
                   "client_id",
                   OrElse(ReadStringField(object, GeminiClientKeys),
                          ReadNested(token_object, GeminiClientKeys))),
                   "client_secret",
                   OrElse(ReadStringField(object, GeminiSecretKeys),
                          ReadNested(token_object, GeminiSecretKeys)))
    IN  IF access_token = None /\ refresh_token = None
        THEN TransformErr("missing access_token and refresh_token")
        ELSE IF expiry_date_ms = None THEN TransformOverflow
        ELSE TransformOk(out)

\* transform_auth_payload_for_plugin
TransformAuthPayloadForPlugin(plugin_id, raw_payload, now_ms) ==
    IF ~raw_payload.ok THEN TransformErr("invalid auth file JSON")
    ELSE IF raw_payload.root.t # "obj"
    THEN TransformErr("auth file JSON root must be an object")
    ELSE LET object == raw_payload.root.f
         IN  CASE plugin_id = "codex" -> TransformCodex(object, now_ms)
               [] plugin_id = "claude" -> TransformClaude(object)
               [] plugin_id = "kimi" -> TransformKimi(object)
               [] plugin_id = "antigravity" ->
                      TransformAntigravity(object, now_ms)
               [] plugin_id = "gemini" -> TransformGemini(object, now_ms)
               [] OTHER ->
                      TransformErr("unsupported provider for credential overlay")

(***************************************************************************)
(* Providers, target paths, cache key (lib.rs 185-240, 605-610, 706-711).  *)
(***************************************************************************)
\* str::to_lowercase on the provider tags of the catalog
ToLowercase(word) ==
    CASE word = "Codex" -> "codex"
      [] word = "Anthropic" -> "anthropic"
      [] word = "Google" -> "google"
      [] word = "ANTIGRAVITY" -> "antigravity"
      [] OTHER -> word

\* normalize_provider_key, on a provider tag given as tokens
NormalizeProviderKey(provider) ==
    LET trimmed == Trim(provider)
        normalized == IF Len(trimmed) = 1 THEN ToLowercase(trimmed[1])
                      ELSE "?"
    IN  CASE normalized = "anthropic" -> "claude"
          [] normalized \in {"google", "google-ai", "gemini-cli"} -> "gemini"
          [] OTHER -> normalized

OverlayPlugins == {"codex", "claude", "kimi", "antigravity", "gemini"}

\* provider_matches_plugin
ProviderMatchesPlugin(plugin_id, provider) ==
    plugin_id \in OverlayPlugins /\ NormalizeProviderKey(provider) = plugin_id

\* supports_credential_overlay
SupportsCredentialOverlay(plugin_id) == plugin_id \in OverlayPlugins

\* std::env::var("CODEX_HOME") of the process: unset
CodexHome == None

\* credential_target_paths; a path is << first component, rest >>
CredentialTargetPaths(plugin_id) ==
    CASE plugin_id = "codex" ->
             IF IsSome(CodexHome) /\ Trim(Unwrap(CodexHome)) # << >>
             THEN << Trim(Unwrap(CodexHome)) \o << "/auth.json" >> >>
             ELSE << << "~", "/.config/codex/auth.json" >>,
                     << "~", "/.codex/auth.json" >> >>
      [] plugin_id = "claude" -> << << "~", "/.claude/.credentials.json" >> >>
      [] plugin_id = "kimi" ->
             << << "~", "/.kimi/credentials/kimi-code.json" >> >>
      [] plugin_id = "antigravity" ->
             << << "<app_data_dir>", "/plugins_data/antigravity/auth.json" >> >>
      [] plugin_id = "gemini" -> << << "~", "/.gemini/oauth_creds.json" >> >>
      [] OTHER -> << >>

\* DefaultHasher (SipHash-1-3, zero keys) over the bytes of the api key and
\* the 0xff that str::hash appends, printed as 16 hex digits
KeyHash(api_key) ==
    CASE api_key = "k1" -> "e152438f776c599b"
      [] api_key = "k2" -> "39ec42262364fd8e"
      [] OTHER -> "hash(" \o api_key \o ")"

\* config_cache_fingerprint
ConfigCacheFingerprint(cfg) ==
    cfg.base_url \o << "::", KeyHash(cfg.api_key) >>

\* the cache key of prepare_credential_overlay
CacheKey(plugin_id, selected, cfg) ==
    << plugin_id, "::" >> \o selected \o << "::" >>
        \o ConfigCacheFingerprint(cfg)

(***************************************************************************)
(* The world around the orchestrator: what the plugin directory, the       *)
(* caller, the remote store and the plugin scripts can supply.             *)
(***************************************************************************)
Plugin(id, dir) == [id |-> id, dir |-> dir]

\* plugin_engine::initialize_plugins: the directories with a valid manifest,
\* sorted by manifest id; nothing makes two manifests carry different ids
LoadedChoices ==
    { << Plugin("antigravity", "antigravity"), Plugin("codex", "codex"),
         Plugin("mock", "mock") >>,
      << Plugin("codex", "codex"), Plugin("codex", "codex-fork") >>,
      << >> }

Now0 == << 1, 700000, 0 >>

BatchIdArgs == { None, Some(<< " ", "b", " " >>) }

PluginIdArgs ==
    { None, Some(<< >>), Some(<< "ghost" >>),
      Some(<< "mock", "codex" >>), Some(<< "codex", "ghost", "codex" >>) }

SelectionArgs ==
    { None, Some(EmptyMap),
      Some([codex |-> << " " >>]),
      Some([codex |-> << " ", "a" >>, mock |-> << "a" >>]),
      Some([antigravity |-> << "id-g" >>, codex |-> << "d" >>]) }

Configs == { [base_url |-> << "http://proxy" >>, api_key |-> "k1"] }

AuthFile(id, name, provider, disabled, unavailable, auth_index) ==
    [id |-> id, name |-> name, provider |-> provider, disabled |-> disabled,
     unavailable |-> unavailable, auth_index |-> auth_index]

Catalogs ==
    { << AuthFile(<< "id-a" >>, << "a" >>, << " ", "Codex" >>, FALSE, FALSE,
                  None),
         AuthFile(<< "id-g" >>, << "g" >>, << "antigravity" >>, FALSE, FALSE,
                  Some(<< "1" >>)),
         AuthFile(<< "id-d" >>, << "d" >>, << "codex" >>, TRUE, FALSE,
                  None) >> }

Token(name) == JStr(Text(name))
FarFuture == << 4, 70908, 800000 >>

RawPayloads ==
    { Malformed,
      Doc(JObj([refresh_token |-> Token("rt")])),
      Doc(JObj([access_token |-> Token("at"), refresh_token |-> Token("rt"),
                expired |-> JStr(Lit(FALSE, "rfc3339", FarFuture))])),
      Doc(JObj([access_token |-> Token("at"), refresh_token |-> Token("rt"),
                expired |-> JStr(Lit(FALSE, "rfc3339",
                                     BigAdd(Now0, BigOfInt(-1))))])) }

\* what a plugin script leaves at a credential path when it refreshes
Refreshed == Doc(JObj([accessToken |-> Token("at2"),
                       expiresAtMs |-> JNum(FarFuture)]))

(***************************************************************************)
(* The script sandbox (plugin_engine/runtime.rs): the values a script can  *)
(* hand to the host.  A script string is a sequence of pieces, " " being   *)
(* whitespace; a number is finite (counted in halves), NaN or an infinity. *)
(***************************************************************************)
Num(n) == [k |-> "finite", h |-> 2 * n]
Half(h) == [k |-> "finite", h |-> h]
NaN == [k |-> "nan", h |-> 0]
Infinity == [k |-> "inf", h |-> 1]
NegInfinity == [k |-> "inf", h |-> -1]

\* f64::is_finite
IsFinite(x) == x.k = "finite"
\* the comparisons of f64: every comparison with NaN is false
NumLt(x, n) == x.k # "nan" /\ (IF x.k = "inf" THEN x.h < 0 ELSE x.h < 2 * n)
\* `<` where the source has `<=`
NumLe_Exclusive(x, n) == NumLt(x, n)

NumLe(x, n) == x.k # "nan" /\ (IF x.k = "inf" THEN x.h < 0 ELSE x.h <= 2 * n)
NumNe(x, n) == ~(x.k = "finite" /\ x.h = 2 * n)

\* Display of f64
FormatF64(x) ==
    CASE x.k = "nan" -> "NaN"
      [] x.k = "inf" -> IF x.h < 0 THEN "-inf" ELSE "inf"
      [] OTHER ->
           LET a == IF x.h < 0 THEN 0 - x.h ELSE x.h
           IN  (IF x.h < 0 THEN "-" ELSE "") \o ToString(a \div 2)
                   \o (IF a % 2 = 1 THEN ".5" ELSE "")

U64Max == << 18446744, 73709, 551615 >>

\* `n as u64`: truncates toward zero and saturates, NaN gives 0
AsU64(x) ==
    CASE x.k = "nan" -> BigZero
      [] x.k = "inf" -> IF x.h < 0 THEN BigZero ELSE U64Max
      [] OTHER -> IF x.h < 0 THEN BigZero ELSE BigOfInt(x.h \div 2)

JsUndefined == [t |-> "undefined"]
JsNull == [t |-> "null"]
JsBool == [t |-> "bool"]
JsNumber(x) == [t |-> "number", x |-> x]
JsString(s) == [t |-> "string", s |-> s]
JsObject(f) == [t |-> "object", f |-> f]
JsArray(a) == [t |-> "array", a |-> a]
JsFunction(body) == [t |-> "function", body |-> body]
JsPromise(state, v) == [t |-> "promise", state |-> state, v |-> v]

\* the text of a script string as the host's String
RECURSIVE Flat(_)
Flat(s) == IF s = << >> THEN "" ELSE Head(s) \o Flat(Tail(s))

\* Object::get::<_, Value>: a property that is not there reads as undefined
GetValue(object, key) ==
    IF object.t = "object" /\ key \in DOMAIN object.f THEN object.f[key]
    ELSE JsUndefined

\* the conversions FromJs of Object, Array, Function; as_number, as_string
IsObject(v) == v.t \in {"object", "array", "function", "promise"}
IsArray(v) == v.t = "array"
IsFunction(v) == v.t = "function"
AsNumber(v) == IF v.t = "number" THEN Some(v.x) ELSE None
AsString(v) == IF v.t = "string" THEN Some(v.s) ELSE None

\* Object::get::<_, String>: Err unless the property is a string
GetString(object, key) ==
    LET v == GetValue(object, key)
    IN  IF v.t = "string" THEN Some(Flat(v.s)) ELSE None

\* .unwrap_or_default() on a String
UnwrapOrDefault(o) == IF IsSome(o) THEN Unwrap(o) ELSE ""

(***************************************************************************)
(* MetricLine and PluginOutput (runtime.rs 7-51).                          *)
(***************************************************************************)
TextLine(label, value, color, subtitle) ==
    [type |-> "text", label |-> label, value |-> value, color |-> color,
     subtitle |-> subtitle]
ProgressLine(label, used, limit, format, resets_at, period_ms, color) ==
    [type |-> "progress", label |-> label, used |-> used, limit |-> limit,
     format |-> format, resets_at |-> resets_at,
     period_duration_ms |-> period_ms, color |-> color]
BadgeLine(label, text, color, subtitle) ==
    [type |-> "badge", label |-> label, text |-> text, color |-> color,
     subtitle |-> subtitle]

Percent == [kind |-> "percent"]
Dollars == [kind |-> "dollars"]
Count(suffix) == [kind |-> "count", suffix |-> suffix]

\* error_line
ErrorLine(message) == BadgeLine("Error", message, Some("#ef4444"), None)

\* the fallback of line 58 returned whatever the failure
ErrorOutput_Fallback(plugin, message) ==
    [provider_id |-> plugin.id, plan |-> None,
     lines |-> << ErrorLine("runtime error") >>]

\* error_output
ErrorOutput(plugin, message) ==
    [provider_id |-> plugin.id, plan |-> None,
     lines |-> << ErrorLine(message) >>]

(***************************************************************************)
(* Timestamps as the validator sees them: a string is RFC 3339 when it is  *)
(* a date, "T", a time and a zone.                                         *)
(***************************************************************************)
DatePieces == {"2099-01-01"}
TimePieces == {"00:00:00"}
ZonePieces == {"Z", "+01:00", "-05:00"}

\* OffsetDateTime::parse(.., &Rfc3339).is_ok()
ParsesRfc3339(s) ==
    /\ Len(s) = 4
    /\ s[1] \in DatePieces
    /\ s[2] = "T"
    /\ s[3] \in TimePieces
    /\ s[4] \in ZonePieces

\* the pieces that hold a '+' or a '-'
HasSign(piece) == piece \in {"+01:00", "-05:00"} \cup DatePieces

\* lines 327-332
IsMissingTz(value) ==
    /\ \E i \in DOMAIN value : value[i] = "T"
    /\ value[Len(value)] # "Z"
    /\ LET t == CHOOSE i \in DOMAIN value :
                   value[i] = "T" /\ \A j \in 1..(i - 1) : value[j] # "T"
       IN  \A j \in (t + 1)..Len(value) :
               ~HasSign(value[j])

\* lines 309-365
ParseResetsAt(line) ==
    LET v == GetValue(line, "resetsAt")
        value == Trim(Unwrap(AsString(v)))
        with_z == value \o << "Z" >>
    IN  IF v.t \in {"null", "undefined"} THEN None
        ELSE IF AsString(v) = None THEN None
        ELSE IF value = << >> THEN None
        ELSE IF ParsesRfc3339(value) THEN Some(Flat(value))
        ELSE IF IsMissingTz(value) /\ ParsesRfc3339(with_z)
        THEN Some(Flat(with_z))
        ELSE None

\* lines 368-386
ParsePeriodDurationMs(line) ==
    LET val == GetValue(line, "periodDurationMs")
        ms == AsU64(Unwrap(AsNumber(val)))
    IN  IF val.t \in {"null", "undefined"} THEN None
        ELSE IF AsNumber(val) = None THEN None
        ELSE IF BigGt(ms, BigZero) THEN Some(ms)
        ELSE None

(***************************************************************************)
(* parse_lines (runtime.rs 150-412).  idx counts from 0 as in the source.  *)
(***************************************************************************)
At_(idx) == " at index " \o ToString(idx)

\* lines 257-307: the format of a progress line, or the message of its error
ParseFormat(idx, limit, format_obj) ==
    LET kind_value == GetValue(format_obj, "kind")
        kind == Flat(Unwrap(AsString(kind_value)))
        suffix_value == GetValue(format_obj, "suffix")
        suffix == Trim(Unwrap(AsString(suffix_value)))
        Bad(message) == [ok |-> FALSE, message |-> message]
        Good(format) == [ok |-> TRUE, format |-> format]
    IN  IF AsString(kind_value) = None
        THEN Bad("progress line" \o At_(idx)
                     \o " invalid format.kind (expected string)")
        ELSE IF kind = "percent"
        THEN IF NumNe(limit, 100)
             THEN Bad("progress line" \o At_(idx)
                          \o ": percent format requires limit=100 (got "
                          \o FormatF64(limit) \o ")")
             ELSE Good(Percent)
        ELSE IF kind = "dollars" THEN Good(Dollars)
        ELSE IF kind = "count"
        THEN IF AsString(suffix_value) = None
             THEN Bad("progress line" \o At_(idx)
                          \o ": count format suffix must be a string")
             ELSE IF suffix = << >>
             THEN Bad("progress line" \o At_(idx)
                          \o ": count format suffix must be non-empty")
             ELSE Good(Count(Flat(suffix)))
        ELSE Bad("progress line" \o At_(idx) \o " invalid format.kind: "
                     \o kind)

\* lines 172-397: one entry of type "progress".  Reading a property as a
\* Value gives undefined when it is not there, so the "missing used",
\* "missing limit" and "missing format.kind" arms are not taken by data
ParseProgress(idx, line, label, color) ==
    LET used_value == GetValue(line, "used")
        limit_value == GetValue(line, "limit")
        used == Unwrap(AsNumber(used_value))
        limit == Unwrap(AsNumber(limit_value))
        format_obj == GetValue(line, "format")
        format == ParseFormat(idx, limit, format_obj)
    IN  IF AsNumber(used_value) = None
        THEN ErrorLine("progress line" \o At_(idx)
                           \o " invalid used (expected number)")
        ELSE IF AsNumber(limit_value) = None
        THEN ErrorLine("progress line" \o At_(idx)
                           \o " invalid limit (expected number)")
        ELSE IF ~IsFinite(used) \/ NumLt(used, 0)
        THEN ErrorLine("progress line" \o At_(idx) \o " invalid used: "
                           \o FormatF64(used))
        ELSE IF ~IsFinite(limit) \/ NumLe(limit, 0)
        THEN ErrorLine("progress line" \o At_(idx) \o " invalid limit: "
                           \o FormatF64(limit))
        ELSE IF ~IsObject(format_obj)
        THEN ErrorLine("progress line" \o At_(idx) \o " missing format")
        ELSE IF ~format.ok THEN ErrorLine(format.message)
        ELSE ProgressLine(label, used, limit, format.format,
                          ParseResetsAt(line), ParsePeriodDurationMs(line),
                          color)

\* lines 162-408: one entry that is an object
ParseLine(idx, line) ==
    LET line_type == UnwrapOrDefault(GetString(line, "type"))
        label == UnwrapOrDefault(GetString(line, "label"))
        color == GetString(line, "color")
        subtitle == GetString(line, "subtitle")
    IN  CASE line_type = "text" ->
                 TextLine(label, UnwrapOrDefault(GetString(line, "value")),
                          color, subtitle)
          [] line_type = "progress" -> ParseProgress(idx, line, label, color)
          [] line_type = "badge" ->
                 BadgeLine(label, UnwrapOrDefault(GetString(line, "text")),
                           color, subtitle)
          [] OTHER -> ErrorLine("unknown line type" \o At_(idx) \o ": "
                                    \o line_type)

\* lines 157-409: the loop; an entry that is not an object ends it with Err
RECURSIVE ParseFrom(_, _, _)
ParseFrom(lines, idx, out) ==
    IF idx = Len(lines) THEN [ok |-> TRUE, lines |-> out, message |-> ""]
    ELSE IF ~IsObject(lines[idx + 1])
    THEN [ok |-> FALSE, lines |-> << >>,
          message |-> "invalid line" \o At_(idx)]
    ELSE ParseFrom(lines, idx + 1,
                   Append(out, ParseLine(idx, lines[idx + 1])))

\* a result without a lines array taken for one with an empty array
ParseLines_MissingAsEmpty(result) ==
    LET lines == GetValue(result, "lines")
    IN  IF ~IsArray(lines)
        THEN [ok |-> TRUE, lines |-> << >>, message |-> ""]
        ELSE ParseFrom(lines.a, 0, << >>)

\* parse_lines
ParseLines(result) ==
    LET lines == GetValue(result, "lines")
    IN  IF ~IsArray(lines)
        THEN [ok |-> FALSE, lines |-> << >>, message |-> "missing lines"]
        ELSE ParseFrom(lines.a, 0, << >>)

(***************************************************************************)
(* run_probe (runtime.rs 53-148).  A script is what its evaluation does:   *)
(* which part of the set-up fails, whether the evaluation succeeds, and    *)
(* the value it leaves in the global __openusage_plugin.  The body of a    *)
(* function is the value it returns or throws; a promise is given in the   *)
(* state it has once no job is pending.                                    *)
(***************************************************************************)
Script(setup, eval_ok, plugin_value) ==
    [setup |-> setup, eval_ok |-> eval_ok, plugin_value |-> plugin_value]
Returns(v) == [throws |-> FALSE, v |-> v]
Throws(v) == [throws |-> TRUE, v |-> v]

GenericFailure == "The plugin failed, try again or contact plugin author."

\* Ctx::catch when no exception is pending
NoException == [t |-> "uninitialized"]

\* the thrown string taken as it is
ExtractErrorString_Verbatim(exc) ==
    IF exc.t \in {"null", "undefined"} THEN GenericFailure
    ELSE IF IsSome(AsString(exc)) THEN Flat(Unwrap(AsString(exc)))
    ELSE GenericFailure

\* extract_error_string, on the value Ctx::catch returns
ExtractErrorString(exc) ==
    IF exc.t \in {"null", "undefined"} THEN GenericFailure
    ELSE IF IsSome(AsString(exc)) /\ Trim(Unwrap(AsString(exc))) # << >>
    THEN Flat(Trim(Unwrap(AsString(exc))))
    ELSE GenericFailure

\* the lines of the validator taken as they come
ValidatedOutput_AsParsed(plugin, result) ==
    LET plan == GetString(result, "plan")
        parsed == ParseLines(result)
    IN  [provider_id |-> plugin.id,
         plan |-> IF IsSome(plan) /\ Unwrap(plan) # "" THEN plan ELSE None,
         lines |-> IF parsed.ok THEN parsed.lines
                   ELSE << ErrorLine(parsed.message) >>]

\* lines 132-146: the output of a probe that returned an object
ValidatedOutput(plugin, result) ==
    LET plan == GetString(result, "plan")
        parsed == ParseLines(result)
    IN  [provider_id |-> plugin.id,
         plan |-> IF IsSome(plan) /\ Unwrap(plan) # "" THEN plan ELSE None,
         lines |-> IF parsed.ok /\ parsed.lines # << >> THEN parsed.lines
                   ELSE IF parsed.ok
                   THEN << ErrorLine("no lines returned") >>
                   ELSE << ErrorLine(parsed.message) >>]

\* lines 113-130: from the value probe returned to the object to validate
SettleResult(plugin, result_value, steps) ==
    LET Ended(message) ==
            [output |-> ErrorOutput(plugin, message), steps |-> steps]
        driven == Append(steps, "finish")
        EndedDriven(message) ==
            [output |-> ErrorOutput(plugin, message), steps |-> driven]
    IN  IF result_value.t = "promise"
        THEN CASE result_value.state = "pending" ->
                      EndedDriven("probe() returned unresolved promise")
               [] result_value.state = "rejected" ->
                      EndedDriven(ExtractErrorString(result_value.v))
               [] OTHER ->
                      IF IsObject(result_value.v)
                      THEN [output |-> ValidatedOutput(plugin,
                                                       result_value.v),
                            steps |-> Append(driven, "parse_lines")]
                      ELSE EndedDriven(ExtractErrorString(NoException))
        ELSE IF IsObject(result_value)
        THEN [output |-> ValidatedOutput(plugin, result_value),
              steps |-> Append(steps, "parse_lines")]
        ELSE Ended("probe() returned non-object")

\* run_probe; steps lists the calls made, in the order they were made
RunProbe(plugin, script) ==
    LET Ended(message, steps) ==
            [output |-> ErrorOutput(plugin, message), steps |-> steps]
        s1 == << "Runtime::new" >>
        s2 == Append(s1, "Context::full")
        s3 == Append(s2, "inject_host_api")
        s4 == Append(s3, "patch_http_wrapper")
        s5 == Append(s4, "patch_ls_wrapper")
        s6 == Append(s5, "inject_utils")
        s7 == Append(s6, "eval")
        s8 == Append(s7, "get __openusage_plugin")
        s9 == Append(s8, "get probe")
        s10 == Append(s9, "call")
        plugin_obj == script.plugin_value
        probe_fn == GetValue(plugin_obj, "probe")
    IN  IF script.setup = "Runtime::new" THEN Ended("runtime error", s1)
        ELSE IF script.setup = "Context::full"
        THEN Ended("runtime error", s2)
        ELSE IF script.setup = "inject_host_api"
        THEN Ended("host api injection failed", s3)
        ELSE IF script.setup = "patch_http_wrapper"
        THEN Ended("http wrapper patch failed", s4)
        ELSE IF script.setup = "patch_ls_wrapper"
        THEN Ended("ls wrapper patch failed", s5)
        ELSE IF script.setup = "inject_utils"
        THEN Ended("utils injection failed", s6)
        ELSE IF ~script.eval_ok THEN Ended("script eval failed", s7)
        ELSE IF ~IsObject(plugin_obj)
        THEN Ended("missing __openusage_plugin", s8)
        ELSE IF ~IsFunction(probe_fn) THEN Ended("missing probe()", s9)
        ELSE IF probe_fn.body.throws
        THEN Ended(ExtractErrorString(probe_fn.body.v), s10)
        ELSE SettleResult(plugin, probe_fn.body.v, s10)

ErrorBadge(message) == BadgeLine("Error", message, Some("#ef4444"), None)

\* plugin_error_output
PluginErrorOutput(plugin, message) ==
    [provider_id |-> plugin.id, plan |-> None,
     lines |-> << ErrorBadge(message) >>]

\* scripts of the kinds the bundled plugins are: one reports a plan, one does
\* not evaluate
TestPlugin == Plugin("test", "test")

TextEntry == JsObject([type |-> JsString(<< "text" >>),
                       label |-> JsString(<< "Plan" >>),
                       value |-> JsString(<< "pro" >>)])

PlanScript ==
    Script("none", TRUE,
           JsObject([probe |-> JsFunction(Returns(
               JsObject([lines |-> JsArray(<< TextEntry >>)])))]))
BrokenScript == Script("none", FALSE, JsUndefined)

\* what run_probe does in one call: it returns an output or unwinds, and the
\* script may have rewritten the overlay it was given
ProbeOutcomes ==
    { [panic |-> FALSE, write |-> FALSE,
       lines |-> RunProbe(TestPlugin, PlanScript).output.lines],
      [panic |-> FALSE, write |-> TRUE,
       lines |-> RunProbe(TestPlugin, PlanScript).output.lines],
      [panic |-> FALSE, write |-> FALSE,
       lines |-> RunProbe(TestPlugin, BrokenScript).output.lines],
      [panic |-> TRUE, write |-> FALSE, lines |-> << >>] }

HomeDir == Some("/home/user")

\* expand_path, on a path given as << first component, rest >>
ExpandPath(path) ==
    IF path[1] = "~" /\ IsSome(HomeDir)
    THEN << Unwrap(HomeDir) >> \o Tail(path)
    ELSE path

(***************************************************************************)
(* start_probe_batch (lib.rs 788-1008).                                    *)
(***************************************************************************)
\* the supplied id taken as it is
NormalizeBatchId_Untrimmed(arg, fresh) ==
    IF IsSome(arg) THEN Unwrap(arg) ELSE << "uuid-" \o ToString(fresh) >>

\* lines 795-804: trim the supplied id, generate one when missing or blank
NormalizeBatchId(arg, fresh) ==
    IF IsSome(arg) /\ Trim(Unwrap(arg)) # << >>
    THEN Trim(Unwrap(arg))
    ELSE << "uuid-" \o ToString(fresh) >>

\* lines 818-821: collecting into a HashMap keeps the last plugin of an id
ById(plugins) ==
    [id \in {plugins[i].id : i \in DOMAIN plugins} |->
        plugins[CHOOSE i \in DOMAIN plugins :
                    /\ plugins[i].id = id
                    /\ \A j \in DOMAIN plugins : plugins[j].id = id => j <= i]]

\* lines 822-830: the filter_map over the requested ids
RECURSIVE FilterRequested(_, _, _)
FilterRequested(ids, seen, by_id) ==
    IF ids = << >> THEN << >>
    ELSE IF Head(ids) \in seen THEN FilterRequested(Tail(ids), seen, by_id)
    ELSE IF Head(ids) \in DOMAIN by_id
    THEN << by_id[Head(ids)] >>
             \o FilterRequested(Tail(ids), seen \cup {Head(ids)},
                                MapRemove(by_id, Head(ids)))
    ELSE FilterRequested(Tail(ids), seen \cup {Head(ids)}, by_id)

\* the loaded list filtered by the request: load order, every match kept
SelectPlugins_LoadOrder(plugins, plugin_ids) ==
    IF plugin_ids = None THEN plugins
    ELSE SelectSeq(plugins,
             LAMBDA p : \E i \in DOMAIN Unwrap(plugin_ids) :
                            Unwrap(plugin_ids)[i] = p.id)

\* lines 816-833
SelectPlugins(plugins, plugin_ids) ==
    IF plugin_ids = None THEN plugins
    ELSE FilterRequested(Unwrap(plugin_ids), {}, ById(plugins))

\* lines 835-838
PluginIdsOf(plugins) == [i \in DOMAIN plugins |-> plugins[i].id]

Workers(b) == DOMAIN selected_plugins[b]

BatchCompleteEvent(b, w) ==
    [name |-> "probe:batch-complete", batch_id |-> batch_id[b], w |-> w]
ResultEvent(b, w, output) ==
    [name |-> "probe:result", batch_id |-> batch_id[b], w |-> w,
     output |-> output]

\* lines 795-844: the arguments are normalised and the plugin list resolved
StartBatchWith(b, id, ids, sel) ==
    /\ bpc[b] = "idle"
    /\ budget > 0
    /\ b \in slots
    /\ \A a \in slots : a < b => bpc[a] # "idle"
    /\ req' = [req EXCEPT ![b] = [batch_id |-> id, plugin_ids |-> ids,
                                  account_selections |-> sel]]
    /\ batch_id' = [batch_id EXCEPT ![b] = NormalizeBatchId(id, budget)]
    /\ selected_plugins' =
           [selected_plugins EXCEPT ![b] = SelectPlugins(loaded, ids)]
    /\ wpc' = [wpc EXCEPT ![b] =
                  [w \in DOMAIN selected_plugins'[b] |-> "unspawned"]]
    /\ wresult' = [wresult EXCEPT ![b] =
                      [w \in DOMAIN selected_plugins'[b] |-> None]]
    /\ observed' = [observed EXCEPT ![b] =
                       [w \in DOMAIN selected_plugins'[b] |-> None]]
    /\ budget' = budget - 1
    /\ bpc' = [bpc EXCEPT ![b] =
                  IF selected_plugins'[b] = << >> THEN "empty" ELSE "resolve"]
    /\ UNCHANGED << loaded, slots, cache, now, response, config, auth_files, cursor,
                    pending, prepared_overlays, overlay_errors, overlays,
                    remaining, events, sandbox, trace, fn_in, fn_out, locks >>

\* the command as the caller may invoke it
StartBatch(b) ==
    \E id \in BatchIdArgs, ids \in PluginIdArgs, sel \in SelectionArgs :
        StartBatchWith(b, id, ids, sel)

\* an early return that announces nothing
CompleteEmptyBatch_Silent(b) ==
    /\ bpc[b] = "empty"
    /\ response' = [response EXCEPT ![b] =
           Some([batch_id |-> batch_id[b],
                 plugin_ids |-> PluginIdsOf(selected_plugins[b])])]
    /\ bpc' = [bpc EXCEPT ![b] = "returned"]
    /\ UNCHANGED << loaded, slots, cache, now, budget, req, batch_id,
                    selected_plugins, config, auth_files, cursor, pending,
                    prepared_overlays, overlay_errors, overlays, remaining,
                    wpc, wresult, events, observed, sandbox, trace, fn_in,
                    fn_out, locks >>

\* lines 846-857: nothing to probe
CompleteEmptyBatch(b) ==
    /\ bpc[b] = "empty"
    /\ events' = [events EXCEPT ![b] = Append(@, BatchCompleteEvent(b, 0))]
    /\ response' = [response EXCEPT ![b] =
           Some([batch_id |-> batch_id[b],
                 plugin_ids |-> PluginIdsOf(selected_plugins[b])])]
    /\ bpc' = [bpc EXCEPT ![b] = "returned"]
    /\ UNCHANGED << loaded, slots, cache, now, budget, req, batch_id,
                    selected_plugins, config, auth_files, cursor, pending,
                    prepared_overlays, overlay_errors, overlays, remaining,
                    wpc, wresult, observed, sandbox, trace, fn_in, fn_out, locks >>

Selections(b) == Unwrap(req[b].account_selections)

\* the loops of lines 892-901, 905-914, 918-927: one message for every
\* selected plugin that has an entry in the selections
ErrorsForSelected(b, message) ==
    [id \in {selected_plugins[b][i].id : i \in Workers(b)}
            \cap DOMAIN Selections(b) |-> message]

MsgNotConfigured ==
    "CLIProxyAPI is not configured. Select Local account or configure CLIProxyAPI."
MsgConfigRead ==
    "Failed to read CLIProxyAPI config. Select Local account or reconfigure CLIProxyAPI."
MsgCatalog ==
    "Failed to load CLIProxy account list. Check CLIProxyAPI connection."
MsgAccount ==
    "Failed to load selected CLIProxy account. Verify selection and credentials."

\* lines 859-863, 904-929: cliproxyapi::load_config and its three outcomes
LoadConfig(b) ==
    /\ bpc[b] = "resolve"
    /\ IF req[b].account_selections = None \/ Selections(b) = EmptyMap
       THEN /\ bpc' = [bpc EXCEPT ![b] = "counter"]
            /\ UNCHANGED << config, overlay_errors >>
       ELSE \/ /\ \E cfg \in Configs :
                      config' = [config EXCEPT ![b] = Some(cfg)]
               /\ bpc' = [bpc EXCEPT ![b] = "catalog"]
               /\ UNCHANGED overlay_errors
            \/ /\ \E message \in {MsgNotConfigured, MsgConfigRead} :
                      overlay_errors' = [overlay_errors EXCEPT ![b] =
                                            ErrorsForSelected(b, message)]
               /\ bpc' = [bpc EXCEPT ![b] = "counter"]
               /\ UNCHANGED config
    /\ UNCHANGED << loaded, slots, cache, now, budget, req, batch_id,
                    selected_plugins, response, auth_files, cursor, pending,
                    prepared_overlays, overlays, remaining, wpc, wresult,
                    events, observed, sandbox, trace, fn_in, fn_out, locks >>

\* lines 864-865, 890-902: cliproxyapi::list_auth_files_with_config
ListAuthFiles(b) ==
    /\ bpc[b] = "catalog"
    /\ \/ /\ \E files \in Catalogs :
                 auth_files' = [auth_files EXCEPT ![b] = files]
          /\ cursor' = [cursor EXCEPT ![b] = 1]
          /\ bpc' = [bpc EXCEPT ![b] = "prepare"]
          /\ UNCHANGED overlay_errors
       \/ /\ overlay_errors' = [overlay_errors EXCEPT ![b] =
                                   ErrorsForSelected(b, MsgCatalog)]
          /\ bpc' = [bpc EXCEPT ![b] = "counter"]
          /\ UNCHANGED << auth_files, cursor >>
    /\ UNCHANGED << loaded, slots, cache, now, budget, req, batch_id,
                    selected_plugins, response, config, pending,
                    prepared_overlays, overlays, remaining, wpc, wresult,
                    events, observed, sandbox, trace, fn_in, fn_out, locks >>

(***************************************************************************)
(* prepare_credential_overlay (lib.rs 588-704), called from the loop of    *)
(* lines 866-888.  The cache lock is taken twice, for the lookup and for   *)
(* the store, so a resolve that misses is two steps.                       *)
(***************************************************************************)
\* lines 633-636: the first catalog entry the selection names
FindAuthFile(files, selected) ==
    LET hits == {i \in DOMAIN files :
                    \/ files[i].id = selected
                    \/ files[i].name = selected
                    \/ (IF IsSome(files[i].auth_index)
                        THEN Unwrap(files[i].auth_index) ELSE << >>) = selected}
    IN  IF hits = {} THEN None
        ELSE Some(files[CHOOSE i \in hits : \A j \in hits : i <= j])

\* an entry flagged unavailable let through
AuthFileUsable_Unavailable(plugin_id, auth_file) ==
    /\ ~auth_file.disabled
    /\ ProviderMatchesPlugin(plugin_id, auth_file.provider)

\* lines 638-654: the entry may be used for the plugin
AuthFileUsable(plugin_id, auth_file) ==
    /\ ~(auth_file.disabled \/ auth_file.unavailable)
    /\ ProviderMatchesPlugin(plugin_id, auth_file.provider)

\* lines 690-698: every target path maps to the payload
BuildOverlay(plugin_id, transformed) ==
    LET target_paths == CredentialTargetPaths(plugin_id)
    IN  [path \in {target_paths[i] : i \in DOMAIN target_paths} |->
            transformed]

\* the loop of line 866 moves to the next plugin, or ends
NextPlugin(b) ==
    /\ cursor' = [cursor EXCEPT ![b] = @ + 1]
    /\ bpc' = [bpc EXCEPT ![b] =
                  IF cursor[b] = Len(selected_plugins[b]) THEN "counter"
                  ELSE "prepare"]

\* lines 880 and 700-703
RecordPrepared(b, plugin_id, cache_key, transformed) ==
    /\ prepared_overlays' = [prepared_overlays EXCEPT ![b] =
           MapInsert(@, plugin_id, [cache_key |-> Some(cache_key)])]
    /\ overlays' = [overlays EXCEPT ![b] =
           MapInsert(@, plugin_id, BuildOverlay(plugin_id, transformed))]
    /\ UNCHANGED overlay_errors

\* lines 881-887
RecordFailure(b, plugin_id) ==
    /\ overlay_errors' = [overlay_errors EXCEPT ![b] =
           MapInsert(@, plugin_id, MsgAccount)]
    /\ UNCHANGED << prepared_overlays, overlays >>

\* lines 866-879 with 596-680: one plugin of the loop, up to the download
PrepareLookup(b) ==
    /\ bpc[b] = "prepare"
    /\ LET plugin_id == selected_plugins[b][cursor[b]].id
           selected == Trim(Selections(b)[plugin_id])
           cache_key == CacheKey(plugin_id, selected, Unwrap(config[b]))
           cached == MapGet(cache, cache_key)
           auth_file == FindAuthFile(auth_files[b], selected)
       IN  IF plugin_id \notin DOMAIN Selections(b)
           THEN /\ NextPlugin(b)
                /\ UNCHANGED << pending, prepared_overlays, overlay_errors,
                                overlays, trace >>
           ELSE IF ~SupportsCredentialOverlay(plugin_id) \/ selected = << >>
           THEN /\ RecordFailure(b, plugin_id)
                /\ NextPlugin(b)
                /\ trace' = [trace EXCEPT ![b] = << >>]
                /\ UNCHANGED pending
           ELSE IF IsSome(cached)
                   /\ ShouldUseCachedOverlay(plugin_id, Unwrap(cached), now)
           THEN /\ RecordPrepared(b, plugin_id, cache_key, Unwrap(cached))
                /\ NextPlugin(b)
                /\ trace' = [trace EXCEPT ![b] = << "cache_get" >>]
                /\ UNCHANGED pending
           ELSE IF auth_file = None
                   \/ ~AuthFileUsable(plugin_id, Unwrap(auth_file))
           THEN /\ RecordFailure(b, plugin_id)
                /\ NextPlugin(b)
                /\ trace' = [trace EXCEPT ![b] = << "cache_get", "find" >>]
                /\ UNCHANGED pending
           ELSE \/ \* lines 656-667: the download fails
                   /\ RecordFailure(b, plugin_id)
                   /\ NextPlugin(b)
                   /\ trace' = [trace EXCEPT ![b] =
                                   << "cache_get", "find", "download" >>]
                   /\ UNCHANGED pending
                \/ \* lines 669-680: the download succeeds
                   \E raw \in RawPayloads :
                      LET result ==
                              TransformAuthPayloadForPlugin(plugin_id, raw, now)
                      IN  /\ ~result.fault
                          /\ trace' = [trace EXCEPT ![b] =
                                 << "cache_get", "find", "download",
                                    "transform" >>]
                          /\ IF result.ok
                             THEN /\ pending' = [pending EXCEPT ![b] =
                                         Some([plugin_id |-> plugin_id,
                                               cache_key |-> cache_key,
                                               transformed |-> result.val])]
                                  /\ bpc' = [bpc EXCEPT ![b] = "store"]
                                  /\ UNCHANGED << cursor, prepared_overlays,
                                                  overlay_errors, overlays >>
                             ELSE /\ RecordFailure(b, plugin_id)
                                  /\ NextPlugin(b)
                                  /\ UNCHANGED pending
    /\ UNCHANGED << loaded, slots, cache, now, budget, req, batch_id,
                    selected_plugins, response, config, auth_files, remaining,
                    wpc, wresult, events, observed, sandbox, fn_in, fn_out, locks >>

\* the overlay built from a payload that is never stored
PrepareStore_Unstored(b) ==
    /\ bpc[b] = "store"
    /\ LET p == Unwrap(pending[b])
       IN  IF CredentialTargetPaths(p.plugin_id) = << >>
           THEN RecordFailure(b, p.plugin_id)
           ELSE RecordPrepared(b, p.plugin_id, p.cache_key, p.transformed)
    /\ pending' = [pending EXCEPT ![b] = None]
    /\ trace' = [trace EXCEPT ![b] = Append(@, "cache_insert")]
    /\ NextPlugin(b)
    /\ UNCHANGED << loaded, slots, cache, now, budget, req, batch_id,
                    selected_plugins, response, config, auth_files, remaining,
                    wpc, wresult, events, observed, sandbox, fn_in, fn_out, locks >>

\* lines 682-703: the payload is stored and the overlay built
PrepareStore(b) ==
    /\ bpc[b] = "store"
    /\ LET p == Unwrap(pending[b])
       IN  /\ cache' = MapInsert(cache, p.cache_key, p.transformed)
           /\ IF CredentialTargetPaths(p.plugin_id) = << >>
              THEN RecordFailure(b, p.plugin_id)
              ELSE RecordPrepared(b, p.plugin_id, p.cache_key, p.transformed)
    /\ pending' = [pending EXCEPT ![b] = None]
    /\ trace' = [trace EXCEPT ![b] = Append(@, "cache_insert")]
    /\ NextPlugin(b)
    /\ UNCHANGED << loaded, slots, now, budget, req, batch_id, selected_plugins,
                    response, config, auth_files, remaining, wpc, wresult,
                    events, observed, sandbox, fn_in, fn_out, locks >>

\* line 933: the counter starts at the length of the effective list
CreateCounter(b) ==
    /\ bpc[b] = "counter"
    /\ remaining' = [remaining EXCEPT ![b] = Some(Len(selected_plugins[b]))]
    /\ cursor' = [cursor EXCEPT ![b] = 1]
    /\ bpc' = [bpc EXCEPT ![b] = "spawn"]
    /\ UNCHANGED << loaded, slots, cache, now, budget, req, batch_id,
                    selected_plugins, response, config, auth_files, pending,
                    prepared_overlays, overlay_errors, overlays, wpc, wresult,
                    events, observed, sandbox, trace, fn_in, fn_out, locks >>

\* the dispatch loop entered from inside the resolution loop
DispatchReached_InLoop(b) == bpc[b] \in {"spawn", "prepare"}

\* line 934: the dispatch loop follows the resolution block of lines 859-931
DispatchReached(b) == bpc[b] = "spawn"

\* lines 934-946: one worker is handed to the blocking pool
SpawnWorker(b) ==
    /\ DispatchReached(b)
    /\ wpc' = [wpc EXCEPT ![b][cursor[b]] = "run"]
    /\ cursor' = [cursor EXCEPT ![b] = @ + 1]
    /\ bpc' = [bpc EXCEPT ![b] =
                  IF cursor[b] = Len(selected_plugins[b]) THEN "return"
                  ELSE "spawn"]
    /\ UNCHANGED << loaded, slots, cache, now, budget, req, batch_id,
                    selected_plugins, response, config, auth_files, pending,
                    prepared_overlays, overlay_errors, overlays, remaining,
                    wresult, events, observed, sandbox, trace, fn_in, fn_out, locks >>

\* lines 1004-1007
ReturnStarted(b) ==
    /\ bpc[b] = "return"
    /\ response' = [response EXCEPT ![b] =
           Some([batch_id |-> batch_id[b],
                 plugin_ids |-> PluginIdsOf(selected_plugins[b])])]
    /\ bpc' = [bpc EXCEPT ![b] = "returned"]
    /\ UNCHANGED << loaded, slots, cache, now, budget, req, batch_id,
                    selected_plugins, config, auth_files, cursor, pending,
                    prepared_overlays, overlay_errors, overlays, remaining,
                    wpc, wresult, events, observed, sandbox, trace, fn_in,
                    fn_out, locks >>

(***************************************************************************)
(* The worker closure (lib.rs 946-1001) and persist_overlay_back_to_cache  *)
(* (lib.rs 731-772).                                                       *)
(***************************************************************************)
PluginOf(b, w) == selected_plugins[b][w]
HasPrepared(b, w) == PluginOf(b, w).id \in DOMAIN prepared_overlays[b]

Succeeded(output) == [ok |-> TRUE, output |-> output]
Panicked == [ok |-> FALSE]

\* the probe run whatever the resolution recorded
WorkerRun_IgnoresError(b, w) ==
    /\ wpc[b][w] = "run"
    /\ LET plugin == PluginOf(b, w)
       IN  \E o \in ProbeOutcomes :
              /\ o.write => HasPrepared(b, w)
              /\ sandbox' = [sandbox EXCEPT ![b] = @ \cup {w}]
              /\ wresult' = [wresult EXCEPT ![b][w] = Some(
                     IF o.panic THEN Panicked
                     ELSE Succeeded([provider_id |-> plugin.id,
                                     plan |-> None, lines |-> o.lines]))]
              /\ IF o.write
                 THEN \E path \in DOMAIN overlays[b][plugin.id] :
                         overlays' = [overlays EXCEPT
                             ![b][plugin.id][path] = Refreshed]
                 ELSE UNCHANGED overlays
    /\ wpc' = [wpc EXCEPT ![b][w] =
                  IF HasPrepared(b, w) THEN "persist" ELSE "emit"]
    /\ UNCHANGED << loaded, slots, cache, now, budget, bpc, req, batch_id,
                    selected_plugins, response, config, auth_files, cursor,
                    pending, prepared_overlays, overlay_errors, remaining,
                    events, observed, trace, fn_in, fn_out, locks >>

\* lines 947-959: the execution inside catch_unwind
WorkerRun(b, w) ==
    /\ wpc[b][w] = "run"
    /\ LET plugin == PluginOf(b, w)
           overlay_error == MapGet(overlay_errors[b], plugin.id)
       IN  IF IsSome(overlay_error)
           THEN /\ wresult' = [wresult EXCEPT ![b][w] = Some(Succeeded(
                       PluginErrorOutput(plugin, Unwrap(overlay_error))))]
                /\ UNCHANGED << sandbox, overlays >>
           ELSE \E o \in ProbeOutcomes :
                   /\ o.write => HasPrepared(b, w)
                   /\ sandbox' = [sandbox EXCEPT ![b] = @ \cup {w}]
                   /\ wresult' = [wresult EXCEPT ![b][w] = Some(
                          IF o.panic THEN Panicked
                          ELSE Succeeded([provider_id |-> plugin.id,
                                          plan |-> None, lines |-> o.lines]))]
                   /\ IF o.write
                      THEN \E path \in DOMAIN overlays[b][plugin.id] :
                              overlays' = [overlays EXCEPT
                                  ![b][plugin.id][path] = Refreshed]
                      ELSE UNCHANGED overlays
    /\ wpc' = [wpc EXCEPT ![b][w] =
                  IF HasPrepared(b, w) THEN "persist" ELSE "emit"]
    /\ UNCHANGED << loaded, slots, cache, now, budget, bpc, req, batch_id,
                    selected_plugins, response, config, auth_files, cursor,
                    pending, prepared_overlays, overlay_errors, remaining,
                    events, observed, trace, fn_in, fn_out, locks >>

\* lines 751-762: the content at the first target path the overlay holds
RECURSIVE FirstPresent(_, _)
FirstPresent(target_paths, overlay) ==
    IF target_paths = << >> THEN None
    ELSE IF ExpandPath(Head(target_paths)) \in DOMAIN overlay
    THEN Some(overlay[ExpandPath(Head(target_paths))])
    ELSE IF Head(target_paths) \in DOMAIN overlay
    THEN Some(overlay[Head(target_paths)])
    ELSE FirstPresent(Tail(target_paths), overlay)

\* a write-back that leaves a key alone once it holds a value
PersistOverlayBackToCache_KeepsHeld(plugin_id, prepared, overlay, store) ==
    LET latest == FirstPresent(CredentialTargetPaths(plugin_id), overlay)
    IN  IF prepared.cache_key = None \/ latest = None THEN store
        ELSE IF Unwrap(prepared.cache_key) \in DOMAIN store THEN store
        ELSE MapInsert(store, Unwrap(prepared.cache_key), Unwrap(latest))

\* persist_overlay_back_to_cache
PersistOverlayBackToCache(plugin_id, prepared, overlay, store) ==
    LET latest == FirstPresent(CredentialTargetPaths(plugin_id), overlay)
    IN  IF prepared.cache_key = None THEN store
        ELSE IF CredentialTargetPaths(plugin_id) = << >> THEN store
        ELSE IF latest = None THEN store
        ELSE MapInsert(store, Unwrap(prepared.cache_key), Unwrap(latest))

\* lines 961-963
WorkerPersist(b, w) ==
    /\ wpc[b][w] = "persist"
    /\ cache' = PersistOverlayBackToCache(PluginOf(b, w).id,
                    prepared_overlays[b][PluginOf(b, w).id],
                    overlays[b][PluginOf(b, w).id], cache)
    /\ wpc' = [wpc EXCEPT ![b][w] = "emit"]
    /\ UNCHANGED << loaded, slots, now, budget, bpc, req, batch_id, selected_plugins,
                    response, config, auth_files, cursor, pending,
                    prepared_overlays, overlay_errors, overlays, remaining,
                    wresult, events, observed, sandbox, trace, fn_in, fn_out, locks >>

\* without catch_unwind a panic ends the closure where it is raised
WorkerEmit_Unwind(b, w) ==
    /\ wpc[b][w] = "emit"
    /\ events' = [events EXCEPT ![b] =
           IF Unwrap(wresult[b][w]).ok
           THEN Append(@, ResultEvent(b, w, Unwrap(wresult[b][w]).output))
           ELSE @]
    /\ wpc' = [wpc EXCEPT ![b][w] =
                  IF Unwrap(wresult[b][w]).ok THEN "decrement" ELSE "done"]
    /\ UNCHANGED << loaded, slots, cache, now, budget, bpc, req, batch_id,
                    selected_plugins, response, config, auth_files, cursor,
                    pending, prepared_overlays, overlay_errors, overlays,
                    remaining, wresult, observed, sandbox, trace, fn_in,
                    fn_out, locks >>

\* lines 965-990: a result event for an output, a log line for a panic
WorkerEmit(b, w) ==
    /\ wpc[b][w] = "emit"
    /\ events' = [events EXCEPT ![b] =
           IF Unwrap(wresult[b][w]).ok
           THEN Append(@, ResultEvent(b, w, Unwrap(wresult[b][w]).output))
           ELSE @]
    /\ wpc' = [wpc EXCEPT ![b][w] = "decrement"]
    /\ UNCHANGED << loaded, slots, cache, now, budget, bpc, req, batch_id,
                    selected_plugins, response, config, auth_files, cursor,
                    pending, prepared_overlays, overlay_errors, overlays,
                    remaining, wresult, observed, sandbox, trace, fn_in,
                    fn_out, locks >>

\* a decrement that is lost
FetchSub_Lost(counter) == counter

\* AtomicUsize::fetch_sub(1): the new value of the counter
FetchSub(counter) == counter - 1

\* the new value of the counter compared where the old one is returned
WorkerDecrement_NewValue(b, w) ==
    /\ wpc[b][w] = "decrement"
    /\ observed' = [observed EXCEPT ![b][w] = remaining[b]]
    /\ remaining' = [remaining EXCEPT ![b] = Some(FetchSub(Unwrap(@)))]
    /\ wpc' = [wpc EXCEPT ![b][w] =
                  IF FetchSub(Unwrap(remaining[b])) = 1 THEN "complete"
                  ELSE "done"]
    /\ UNCHANGED << loaded, slots, cache, now, budget, bpc, req, batch_id,
                    selected_plugins, response, config, auth_files, cursor,
                    pending, prepared_overlays, overlay_errors, overlays,
                    wresult, events, sandbox, trace, fn_in, fn_out, locks >>

\* line 992: the atomic decrement, which returns the value it found
WorkerDecrement(b, w) ==
    /\ wpc[b][w] = "decrement"
    /\ observed' = [observed EXCEPT ![b][w] = remaining[b]]
    /\ remaining' = [remaining EXCEPT ![b] = Some(FetchSub(Unwrap(@)))]
    /\ wpc' = [wpc EXCEPT ![b][w] =
                  IF Unwrap(remaining[b]) = 1 THEN "complete" ELSE "done"]
    /\ UNCHANGED << loaded, slots, cache, now, budget, bpc, req, batch_id,
                    selected_plugins, response, config, auth_files, cursor,
                    pending, prepared_overlays, overlay_errors, overlays,
                    wresult, events, sandbox, trace, fn_in, fn_out, locks >>

\* lines 993-999: the worker that found 1 announces the end of the batch
WorkerComplete(b, w) ==
    /\ wpc[b][w] = "complete"
    /\ events' = [events EXCEPT ![b] = Append(@, BatchCompleteEvent(b, w))]
    /\ wpc' = [wpc EXCEPT ![b][w] = "done"]
    /\ UNCHANGED << loaded, slots, cache, now, budget, bpc, req, batch_id,
                    selected_plugins, response, config, auth_files, cursor,
                    pending, prepared_overlays, overlay_errors, overlays,
                    remaining, wresult, observed, sandbox, trace, fn_in,
                    fn_out, locks >>

(***************************************************************************)
(* The orchestrator as a whole.                                            *)
(***************************************************************************)
NoRequest == [batch_id |-> None, plugin_ids |-> None,
              account_selections |-> None]

BatchInit ==
    /\ cache = EmptyMap
    /\ now = Now0
    /\ bpc = [b \in Batches |-> "idle"]
    /\ req = [b \in Batches |-> NoRequest]
    /\ batch_id = [b \in Batches |-> << >>]
    /\ selected_plugins = [b \in Batches |-> << >>]
    /\ response = [b \in Batches |-> None]
    /\ config = [b \in Batches |-> None]
    /\ auth_files = [b \in Batches |-> << >>]
    /\ cursor = [b \in Batches |-> 0]
    /\ pending = [b \in Batches |-> None]
    /\ prepared_overlays = [b \in Batches |-> EmptyMap]
    /\ overlay_errors = [b \in Batches |-> EmptyMap]
    /\ overlays = [b \in Batches |-> EmptyMap]
    /\ remaining = [b \in Batches |-> None]
    /\ wpc = [b \in Batches |-> << >>]
    /\ wresult = [b \in Batches |-> << >>]
    /\ events = [b \in Batches |-> << >>]
    /\ observed = [b \in Batches |-> << >>]
    /\ sandbox = [b \in Batches |-> {}]
    /\ trace = [b \in Batches |-> << >>]
    /\ locks = {}

\* line 1001 and line 1008: start has returned and every closure has ended,
\* so the batch's values are dropped; its events have been delivered
BatchOver(b) ==
    /\ bpc[b] = "returned"
    /\ \A w \in Workers(b) : wpc[b][w] = "done"

DropBatch(b) ==
    /\ BatchOver(b)
    /\ budget > 0
    /\ bpc' = [bpc EXCEPT ![b] = "idle"]
    /\ req' = [req EXCEPT ![b] = NoRequest]
    /\ batch_id' = [batch_id EXCEPT ![b] = << >>]
    /\ selected_plugins' = [selected_plugins EXCEPT ![b] = << >>]
    /\ response' = [response EXCEPT ![b] = None]
    /\ config' = [config EXCEPT ![b] = None]
    /\ auth_files' = [auth_files EXCEPT ![b] = << >>]
    /\ cursor' = [cursor EXCEPT ![b] = 0]
    /\ pending' = [pending EXCEPT ![b] = None]
    /\ prepared_overlays' = [prepared_overlays EXCEPT ![b] = EmptyMap]
    /\ overlay_errors' = [overlay_errors EXCEPT ![b] = EmptyMap]
    /\ overlays' = [overlays EXCEPT ![b] = EmptyMap]
    /\ remaining' = [remaining EXCEPT ![b] = None]
    /\ wpc' = [wpc EXCEPT ![b] = << >>]
    /\ wresult' = [wresult EXCEPT ![b] = << >>]
    /\ events' = [events EXCEPT ![b] = << >>]
    /\ observed' = [observed EXCEPT ![b] = << >>]
    /\ sandbox' = [sandbox EXCEPT ![b] = {}]
    /\ trace' = [trace EXCEPT ![b] = << >>]
    /\ UNCHANGED << loaded, slots, cache, now, budget, fn_in, fn_out, locks >>

\* one batch at a time: the caller starts a batch after the last one ended
Init ==
    /\ loaded \in LoadedChoices
    /\ budget = MaxStarts
    /\ slots = {1}
    /\ BatchInit
    /\ fn_in = << >>
    /\ fn_out = None

\* the steps of a batch that has been started
BatchNext ==
    \/ \E b \in Batches : CompleteEmptyBatch(b)
    \/ \E b \in Batches : LoadConfig(b)
    \/ \E b \in Batches : ListAuthFiles(b)
    \/ \E b \in Batches : PrepareLookup(b)
    \/ \E b \in Batches : PrepareStore(b)
    \/ \E b \in Batches : CreateCounter(b)
    \/ \E b \in Batches : SpawnWorker(b)
    \/ \E b \in Batches : ReturnStarted(b)
    \/ \E b \in Batches : \E w \in Workers(b) : WorkerRun(b, w)
    \/ \E b \in Batches : \E w \in Workers(b) : WorkerPersist(b, w)
    \/ \E b \in Batches : \E w \in Workers(b) : WorkerEmit(b, w)
    \/ \E b \in Batches : \E w \in Workers(b) : WorkerDecrement(b, w)
    \/ \E b \in Batches : \E w \in Workers(b) : WorkerComplete(b, w)

Next ==
    \/ \E b \in Batches : StartBatch(b)
    \/ BatchNext
    \/ \E b \in Batches : DropBatch(b)

Spec == Init /\ [][Next]_vars

(***************************************************************************)
(* One batch under fair scheduling: the thread inside start_probe_batch    *)
(* keeps running, and the blocking pool runs every closure handed to it.   *)
(* run_probe has no timeout and no cancellation: it returns or unwinds.    *)
(***************************************************************************)
FairInit ==
    /\ loaded \in LoadedChoices
    /\ budget = 1
    /\ slots = {1}
    /\ BatchInit
    /\ fn_in = << >>
    /\ fn_out = None

FairNext ==
    \/ \E b \in Batches : StartBatch(b)
    \/ BatchNext

WorkerIds == UNION {DOMAIN plugins : plugins \in LoadedChoices}

WorkerFairness(b, w) ==
    /\ WF_vars(w \in Workers(b) /\ WorkerRun(b, w))
    /\ WF_vars(w \in Workers(b) /\ WorkerPersist(b, w))
    /\ WF_vars(w \in Workers(b) /\ WorkerEmit(b, w))
    /\ WF_vars(w \in Workers(b) /\ WorkerDecrement(b, w))
    /\ WF_vars(w \in Workers(b) /\ WorkerComplete(b, w))

FairSpec ==
    /\ FairInit
    /\ [][FairNext]_vars
    /\ \A b \in Batches :
           /\ WF_vars(CompleteEmptyBatch(b) \/ LoadConfig(b)
                      \/ ListAuthFiles(b) \/ PrepareLookup(b)
                      \/ PrepareStore(b) \/ CreateCounter(b)
                      \/ SpawnWorker(b) \/ ReturnStarted(b))
           /\ \A w \in WorkerIds : WorkerFairness(b, w)

(***************************************************************************)
(* The pure rules on their own: an input is drawn, the function applied.   *)
(***************************************************************************)
Idle ==
    /\ loaded = << >>
    /\ budget = 0
    /\ slots = {}
    /\ BatchInit
    /\ fn_out = None

SeqsUpTo(S, n) == UNION {[1..k -> S] : k \in 0..n}

\* plugin directories as load_plugins_from_dir returns them: sorted by id
SelectLoaded ==
    { << >>,
      << Plugin("a", "a") >>,
      << Plugin("a", "a"), Plugin("b", "b") >>,
      << Plugin("a", "a"), Plugin("a", "a-copy"), Plugin("b", "b") >> }

SelectInit ==
    /\ Idle
    /\ \E plugins \in SelectLoaded :
       \E plugin_ids \in {None} \cup
              {Some(ids) : ids \in SeqsUpTo({"a", "b", "z"}, MaxRequested)} :
           fn_in = [fn |-> "select", plugins |-> plugins,
                    plugin_ids |-> plugin_ids]

\* lines 816-838: the effective list and the ids start returns
ApplySelect ==
    /\ fn_out = None
    /\ fn_out' = Some([selected_plugins |->
                           SelectPlugins(fn_in.plugins, fn_in.plugin_ids),
                       response_plugin_ids |-> PluginIdsOf(
                           SelectPlugins(fn_in.plugins, fn_in.plugin_ids))])
    /\ UNCHANGED << fn_in, batchVars >>

SelectSpec == SelectInit /\ [][ApplySelect]_vars

\* cached payloads; expiry is what the payload says, in ms of the epoch, to
\* the provider that reads it: None when it says nothing readable
FreshCase(transformed, antigravity, gemini) ==
    [transformed |-> transformed, antigravity |-> antigravity,
     gemini |-> gemini]

FreshDeltas == {-1, 0, 59999, 60000, 60001, 300000}
At(delta) == BigAdd(Now0, BigOfInt(delta))
\* Now0 in whole seconds, and the seconds delta ms later
AtSeconds(delta) == BigAdd(<< 0, 1700, 0 >>, BigOfInt(delta \div 1000))
Field(key, value) == Doc(JObj(MapInsert(EmptyMap, key, value)))

FreshCases ==
    { FreshCase(Malformed, None, None),
      FreshCase(Doc(JArr), None, None),
      FreshCase(Doc(JObj(EmptyMap)), None, None),
      FreshCase(Field("expiresAtMs", JFloat), None, None),
      FreshCase(Field("expiry_date", JNull), None, None),
      FreshCase(Field("expiresAtMs", JStr(Text("soon"))), None, None),
      FreshCase(Field("expiry_date", JStr(Text("soon"))), None, None),
      FreshCase(Doc(JObj([expiry_date |-> JNum(At(-1)),
                          expiryDate |-> JNum(At(300000))])),
                None, Some(At(-1))),
      FreshCase(Doc(JObj([expiresAtMs |-> JNum(At(300000)),
                          expiry_date |-> JNum(At(0))])),
                Some(At(300000)), Some(At(0))) }
    \cup { FreshCase(Field("expiresAtMs", JNum(At(d))), Some(At(d)), None) :
               d \in FreshDeltas }
    \cup { FreshCase(Field("expiresAtMs", JStr(Lit(TRUE, "int", At(d)))),
                     Some(At(d)), None) : d \in FreshDeltas }
    \cup { FreshCase(Field("expiry_date", JNum(At(d))), None, Some(At(d))) :
               d \in FreshDeltas }
    \cup { FreshCase(Field("expiryDate", JStr(Lit(TRUE, "int", At(d)))),
                     None, Some(At(d))) : d \in FreshDeltas }
    \cup { FreshCase(Field("expiry_date", JNum(AtSeconds(d))),
                     None, Some(At(d))) : d \in {0, 60000, 61000, 300000} }

FreshInit ==
    /\ Idle
    /\ \E plugin_id \in {"antigravity", "gemini", "codex", "claude", "kimi",
                         "mock"} :
       \E case \in FreshCases :
           fn_in = [fn |-> "fresh", plugin_id |-> plugin_id, case |-> case]

\* lines 611-616: the question asked of a cached payload
ApplyFresh ==
    /\ fn_out = None
    /\ fn_out' = Some(ShouldUseCachedOverlay(fn_in.plugin_id,
                                             fn_in.case.transformed, now))
    /\ UNCHANGED << fn_in, batchVars >>

FreshSpec == FreshInit /\ [][ApplyFresh]_vars

(***************************************************************************)
(* Vocabulary of the properties.                                           *)
(***************************************************************************)
Started(b) == bpc[b] # "idle"
N(b) == Len(selected_plugins[b])
CompleteEvents(b) ==
    {i \in DOMAIN events[b] : events[b][i].name = "probe:batch-complete"}
ResultEvents(b) ==
    {i \in DOMAIN events[b] : events[b][i].name = "probe:result"}
ResultEventsOf(b, w) == {i \in ResultEvents(b) : events[b][i].w = w}
\* the executions whose outcome has been counted
Counted(b) == {w \in Workers(b) : wpc[b][w] \in {"complete", "done"}}
Finished(b, w) == wpc[b][w] = "done"
Faulted(b, w) == IsSome(wresult[b][w]) /\ ~Unwrap(wresult[b][w]).ok
HasOutput(b, w) == IsSome(wresult[b][w]) /\ Unwrap(wresult[b][w]).ok
HasErrorBadge(output) ==
    \E i \in DOMAIN output.lines :
        output.lines[i].type = "badge" /\ output.lines[i].label = "Error"

(***************************************************************************)
(* C1.  For a batch of N >= 1 plugins the counter starts at N, every       *)
(* finished execution has decremented it exactly once, it never goes below *)
(* zero, at most one batch-complete event exists at any time, it comes     *)
(* from the worker whose decrement found 1, and once all N workers have    *)
(* finished exactly one exists, whatever the order of the workers.         *)
(***************************************************************************)
C1_ExactlyOneBatchComplete ==
    \A b \in Batches :
        (Started(b) /\ N(b) >= 1) =>
            /\ Cardinality(CompleteEvents(b)) <= 1
            /\ IsSome(remaining[b]) =>
                   /\ Unwrap(remaining[b]) \in 0..N(b)
                   /\ Unwrap(remaining[b]) = N(b) - Cardinality(Counted(b))
            /\ \A w \in Workers(b) :
                   /\ IsSome(observed[b][w]) <=> w \in Counted(b)
                   /\ \A v \in Workers(b) :
                          (w # v /\ IsSome(observed[b][w]))
                              => observed[b][w] # observed[b][v]
            /\ \A i \in CompleteEvents(b) :
                   /\ events[b][i].batch_id = batch_id[b]
                   /\ events[b][i].w \in Workers(b)
                   /\ observed[b][events[b][i].w] = Some(1)
                   /\ remaining[b] = Some(0)
                   /\ i = Len(events[b])
            /\ (\A w \in Workers(b) : Finished(b, w))
                   => Cardinality(CompleteEvents(b)) = 1

\* three workers finished in an order other than the spawn order, one of
\* them after a fault and one with an error output
C1_Witness ==
    \E b \in Batches :
        /\ N(b) = 3
        /\ \A w \in Workers(b) : Finished(b, w)
        /\ Cardinality(CompleteEvents(b)) = 1
        /\ observed[b][1] = Some(1)
        /\ observed[b][3] = Some(3)
        /\ \E w \in Workers(b) : Faulted(b, w)
        /\ \E w \in Workers(b) :
               HasOutput(b, w) /\ HasErrorBadge(Unwrap(wresult[b][w]).output)

(***************************************************************************)
(* C2.  An execution that panics inside catch_unwind leaves no result      *)
(* event of its own, still performs its decrement, and takes nothing from  *)
(* its siblings: each sibling that produced an output has its one result   *)
(* event, and the batch still ends with exactly one batch-complete.        *)
(***************************************************************************)
C2_FaultIsContained ==
    \A b \in Batches : \A w \in Workers(b) :
        Faulted(b, w) =>
            /\ ResultEventsOf(b, w) = {}
            /\ Finished(b, w) => IsSome(observed[b][w])
            /\ IsSome(remaining[b])
            /\ Unwrap(remaining[b]) = N(b) - Cardinality(Counted(b))
            /\ \A v \in Workers(b) \ {w} :
                   (HasOutput(b, v)
                      /\ wpc[b][v] \in {"decrement", "complete", "done"})
                       => /\ Cardinality(ResultEventsOf(b, v)) = 1
                          /\ \A i \in ResultEventsOf(b, v) :
                                 events[b][i].output
                                     = Unwrap(wresult[b][v]).output
            /\ Cardinality(CompleteEvents(b)) <= 1
            /\ (\A v \in Workers(b) : Finished(b, v))
                   => Cardinality(CompleteEvents(b)) = 1

\* the second of three executions panicked; the other two reported, and the
\* panicked one was the last to be counted
C2_Witness ==
    \E b \in Batches :
        /\ N(b) = 3
        /\ Faulted(b, 2)
        /\ HasOutput(b, 1) /\ HasOutput(b, 3)
        /\ \A w \in Workers(b) : Finished(b, w)
        /\ Cardinality(ResultEvents(b)) = 2
        /\ observed[b][2] = Some(1)
        /\ Cardinality(CompleteEvents(b)) = 1

(***************************************************************************)
(* C3.  Under fair scheduling every started batch emits batch-complete,    *)
(* and in no state have all workers of a batch finished without it.        *)
(***************************************************************************)
C3_EveryBatchCompletes ==
    /\ \A b \in Batches : Started(b) ~> (CompleteEvents(b) # {})
    /\ [](\A b \in Batches :
              (/\ bpc[b] = "returned"
               /\ \A w \in Workers(b) : Finished(b, w))
                  => CompleteEvents(b) # {})

\* a batch of two whose counter has reached zero and whose end is announced
C3_Witness ==
    \E b \in Batches :
        /\ N(b) = 2
        /\ remaining[b] = Some(0)
        /\ CompleteEvents(b) # {}
        /\ bpc[b] = "returned"

(***************************************************************************)
(* C4.  Every execution with an output has exactly one result event, which *)
(* carries the batch id; no plugin id is the subject of two result events  *)
(* of a batch; and a finished batch has N minus the number of faulted      *)
(* executions result events.                                               *)
(***************************************************************************)
C4_OneResultPerPlugin ==
    \A b \in Batches :
        /\ \A w \in Workers(b) :
               (HasOutput(b, w)
                  /\ wpc[b][w] \in {"decrement", "complete", "done"})
                   => /\ Cardinality(ResultEventsOf(b, w)) = 1
                      /\ \A i \in ResultEventsOf(b, w) :
                             events[b][i].batch_id = batch_id[b]
        /\ \A i, j \in ResultEvents(b) :
               i # j => events[b][i].output.provider_id
                            # events[b][j].output.provider_id
        /\ (Started(b) /\ \A w \in Workers(b) : Finished(b, w))
               => Cardinality(ResultEvents(b))
                      = N(b) - Cardinality({w \in Workers(b) : Faulted(b, w)})

(***************************************************************************)
(* C5.  A batch with an explicit id list that resolves to nothing has, by  *)
(* the time start returns, emitted batch-complete for its id and nothing   *)
(* else; it returns an empty list, has no worker and no counter, and has   *)
(* neither loaded the remote config nor resolved any overlay.              *)
(***************************************************************************)
C5_EmptyBatch ==
    \A b \in Batches :
        (Started(b) /\ IsSome(req[b].plugin_ids) /\ N(b) = 0) =>
            /\ Workers(b) = {}
            /\ remaining[b] = None
            /\ config[b] = None
            /\ trace[b] = << >>
            /\ prepared_overlays[b] = EmptyMap
            /\ overlay_errors[b] = EmptyMap
            /\ sandbox[b] = {}
            /\ ResultEvents(b) = {}
            /\ bpc[b] \in {"empty", "returned"}
            /\ bpc[b] = "empty" => events[b] = << >> /\ response[b] = None
            /\ bpc[b] = "returned" =>
                   /\ events[b] =
                          << [name |-> "probe:batch-complete",
                              batch_id |-> batch_id[b], w |-> 0] >>
                   /\ response[b] = Some([batch_id |-> batch_id[b],
                                          plugin_ids |-> << >>])

\* only an unknown id was requested, with account selections supplied
C5_Witness ==
    \E b \in Batches :
        /\ req[b].plugin_ids = Some(<< "ghost" >>)
        /\ IsSome(req[b].account_selections)
        /\ Unwrap(req[b].account_selections) # EmptyMap
        /\ loaded # << >>
        /\ bpc[b] = "returned"
        /\ Cardinality(CompleteEvents(b)) = 1

(***************************************************************************)
(* C6.  With an explicit id list the resolved ids are the requested ids    *)
(* without the unknown ones and without every id that occurred earlier in  *)
(* the list, in the requested order, and each resolved plugin is a loaded  *)
(* plugin of that id; with no list the resolved list is the loaded list.   *)
(***************************************************************************)
KnownIds(plugins) == {plugins[i].id : i \in DOMAIN plugins}
Kept(ids, known, i) ==
    ids[i] \in known /\ \A j \in 1..(i - 1) : ids[j] # ids[i]
KeptIds(ids, known) ==
    LET upto[i \in 0..Len(ids)] ==
            IF i = 0 THEN << >>
            ELSE IF Kept(ids, known, i) THEN Append(upto[i - 1], ids[i])
            ELSE upto[i - 1]
    IN  upto[Len(ids)]

C6_ResolvedList ==
    (/\ DOMAIN fn_in = {"fn", "plugins", "plugin_ids"}
     /\ IsSome(fn_out)) =>
        LET out == Unwrap(fn_out)
            plugins == fn_in.plugins
        IN  IF fn_in.plugin_ids = None
            THEN /\ out.selected_plugins = plugins
                 /\ out.response_plugin_ids
                        = [i \in DOMAIN plugins |-> plugins[i].id]
            ELSE /\ out.response_plugin_ids
                        = KeptIds(Unwrap(fn_in.plugin_ids), KnownIds(plugins))
                 /\ Len(out.selected_plugins) = Len(out.response_plugin_ids)
                 /\ \A i \in DOMAIN out.selected_plugins :
                        /\ out.selected_plugins[i].id
                               = out.response_plugin_ids[i]
                        /\ \E j \in DOMAIN plugins :
                               plugins[j] = out.selected_plugins[i]

\* "b" before "a", an unknown id between them, and "b" again
C6_Witness ==
    /\ DOMAIN fn_in = {"fn", "plugins", "plugin_ids"}
    /\ fn_in.plugin_ids = Some(<< "b", "z", "b" >>)
    /\ Len(fn_in.plugins) = 2
    /\ IsSome(fn_out)
    /\ Unwrap(fn_out).response_plugin_ids = << "b" >>

(***************************************************************************)
(* C7.  A plugin for which the resolution recorded an error never enters   *)
(* the sandbox: its execution yields the output with the one error badge   *)
(* carrying the recorded message, and that is its result event.  The batch *)
(* goes on: start returns the whole resolved list, every worker is         *)
(* spawned, and the plugins without an error are probed in the sandbox.    *)
(***************************************************************************)
Resolved(b) == bpc[b] \in {"counter", "spawn", "return", "returned"}
OverlayErrorOutput(b, id) ==
    [provider_id |-> id, plan |-> None,
     lines |-> << [type |-> "badge", label |-> "Error",
                   text |-> overlay_errors[b][id],
                   color |-> Some("#ef4444"), subtitle |-> None] >>]

C7_OverlayFailureContained ==
    \A b \in Batches :
        /\ \A w \in Workers(b) :
               LET id == PluginOf(b, w).id
               IN  IF Resolved(b) /\ id \in DOMAIN overlay_errors[b]
                   THEN /\ w \notin sandbox[b]
                        /\ IsSome(wresult[b][w]) =>
                               wresult[b][w] = Some([ok |-> TRUE,
                                   output |-> OverlayErrorOutput(b, id)])
                        /\ \A i \in ResultEventsOf(b, w) :
                               events[b][i].output = OverlayErrorOutput(b, id)
                        /\ Finished(b, w) =>
                               Cardinality(ResultEventsOf(b, w)) = 1
                   ELSE IsSome(wresult[b][w]) => w \in sandbox[b]
        /\ (bpc[b] = "returned" /\ N(b) >= 1) =>
               /\ response[b] = Some([batch_id |-> batch_id[b],
                      plugin_ids |->
                          [i \in Workers(b) |-> selected_plugins[b][i].id]])
               /\ \A w \in Workers(b) : wpc[b][w] # "unspawned"
               /\ remaining[b] = Some(N(b) - Cardinality(Counted(b)))

\* the catalog could not be fetched, two plugins of three had a selection,
\* and the third was probed and reported as in any other batch
C7_Witness ==
    \E b \in Batches :
        /\ N(b) = 3
        /\ bpc[b] = "returned"
        /\ DOMAIN overlay_errors[b] = {"antigravity", "codex"}
        /\ overlay_errors[b]["codex"] = MsgCatalog
        /\ \A w \in Workers(b) : Finished(b, w)
        /\ sandbox[b] = {3}
        /\ HasOutput(b, 3)
        /\ ~HasErrorBadge(Unwrap(wresult[b][3]).output)
        /\ Cardinality(ResultEvents(b)) = 3
        /\ Len(Unwrap(response[b]).plugin_ids) = 3

(***************************************************************************)
(* C8.  A plugin whose selection entry is blank after trimming gets no     *)
(* overlay and no error recorded, and its probe runs in the sandbox.       *)
(***************************************************************************)
BlankSelection(b, id) ==
    /\ IsSome(req[b].account_selections)
    /\ id \in DOMAIN Selections(b)
    /\ Trim(Selections(b)[id]) = << >>

C8_BlankSelectionSkipped ==
    \A b \in Batches : \A w \in Workers(b) :
        (Resolved(b) /\ BlankSelection(b, PluginOf(b, w).id)) =>
            /\ PluginOf(b, w).id \notin DOMAIN prepared_overlays[b]
            /\ PluginOf(b, w).id \notin DOMAIN overlay_errors[b]
            /\ IsSome(wresult[b][w]) => w \in sandbox[b]

(***************************************************************************)
(* C9.  For antigravity and gemini a cached payload is served exactly when *)
(* it is a JSON object whose expiry, in ms, is above now + 60000: an       *)
(* expiry 1 ms ago, one at now + 60000, a missing or unreadable one and    *)
(* malformed JSON are misses, one 5 minutes ahead is a hit.  For any other *)
(* provider whatever is cached is served.                                  *)
(***************************************************************************)
C9_FreshnessRule ==
    (/\ DOMAIN fn_in = {"fn", "plugin_id", "case"}
     /\ IsSome(fn_out)) =>
        LET expiry == IF fn_in.plugin_id = "antigravity"
                      THEN fn_in.case.antigravity
                      ELSE fn_in.case.gemini
        IN  Unwrap(fn_out) =
                IF fn_in.plugin_id \notin {"antigravity", "gemini"} THEN TRUE
                ELSE /\ IsSome(expiry)
                     /\ BigGt(Unwrap(expiry), BigAdd(now, BigOfInt(60000)))

\* an antigravity payload that expires at now + 60000 exactly is refused
C9_Witness ==
    /\ DOMAIN fn_in = {"fn", "plugin_id", "case"}
    /\ fn_in.plugin_id = "antigravity"
    /\ fn_in.case.transformed = Field("expiresAtMs", JNum(At(60000)))
    /\ fn_out = Some(FALSE)

(***************************************************************************)
(* C10.  A resolve that finds under its key a value the freshness rule     *)
(* accepts neither searches the catalog nor downloads, leaves the cache as *)
(* it is and builds the overlay from the cached value; a download happens  *)
(* only after a miss; and a miss that succeeds stores the transformed      *)
(* payload under the key and builds the overlay from it.                   *)
(***************************************************************************)
OverlayHolds(b, plugin_id, content) ==
    /\ plugin_id \in DOMAIN overlays'[b]
    /\ DOMAIN overlays'[b][plugin_id] # {}
    /\ \A path \in DOMAIN overlays'[b][plugin_id] :
           overlays'[b][plugin_id][path] = content

LookupStep(b) ==
    /\ bpc[b] = "prepare"
    /\ << bpc[b], cursor[b] >>' # << bpc[b], cursor[b] >>

StoreStep(b) == bpc[b] = "store" /\ bpc'[b] # "store"

C10_Lookup(b) ==
    LET plugin_id == selected_plugins[b][cursor[b]].id
        selected == Trim(Selections(b)[plugin_id])
        cache_key == CacheKey(plugin_id, selected, Unwrap(config[b]))
        hit == /\ cache_key \in DOMAIN cache
               /\ ShouldUseCachedOverlay(plugin_id, cache[cache_key], now)
        called == /\ plugin_id \in DOMAIN Selections(b)
                  /\ SupportsCredentialOverlay(plugin_id)
                  /\ selected # << >>
    IN  called =>
            /\ cache' = cache
            /\ hit => /\ trace'[b] = << "cache_get" >>
                      /\ OverlayHolds(b, plugin_id, cache[cache_key])
                      /\ prepared_overlays'[b][plugin_id].cache_key
                             = Some(cache_key)
                      /\ pending'[b] = None
            /\ (\E i \in DOMAIN trace'[b] :
                    trace'[b][i] \in {"find", "download"}) => ~hit
            /\ bpc'[b] = "store" =>
                   /\ \E i \in DOMAIN trace'[b] : trace'[b][i] = "download"
                   /\ \E raw \in RawPayloads :
                          /\ TransformAuthPayloadForPlugin(plugin_id, raw,
                                                           now).ok
                          /\ pending'[b] = Some(
                                 [plugin_id |-> plugin_id,
                                  cache_key |-> cache_key,
                                  transformed |->
                                      TransformAuthPayloadForPlugin(
                                          plugin_id, raw, now).val])

C10_Store(b) ==
    LET p == Unwrap(pending[b])
    IN  /\ cache' = [k \in DOMAIN cache \cup {p.cache_key} |->
                        IF k = p.cache_key THEN p.transformed ELSE cache[k]]
        /\ OverlayHolds(b, p.plugin_id, p.transformed)
        /\ trace'[b][Len(trace'[b])] = "cache_insert"

C10_DownloadOnlyOnMiss ==
    [][\A b \in Batches :
           /\ LookupStep(b) => C10_Lookup(b)
           /\ StoreStep(b) => C10_Store(b)]_vars

\* a later batch found what an earlier one had stored, and went no further
C10_Witness ==
    \E b \in Batches :
        /\ budget = 0
        /\ trace[b] = << "cache_get" >>
        /\ "antigravity" \in DOMAIN overlays[b]
        /\ \A path \in DOMAIN overlays[b]["antigravity"] :
               overlays[b]["antigravity"][path] \in
                   {cache[k] : k \in DOMAIN cache}
        /\ bpc[b] = "prepare"
        /\ selected_plugins[b][cursor[b] - 1].id = "antigravity"

(***************************************************************************)
(* The cache key on its own: two resolves, each with its plugin, its       *)
(* selection and the remote configuration of its time.                     *)
(***************************************************************************)
KeySelections == { << "a" >>, << " ", "a" >>, << "a", "::", "b" >> }
KeyBaseUrls == { << "c" >>, << "b", "::", "c" >>, << "d" >> }
KeyConfigs ==
    { [base_url |-> base_url, api_key |-> api_key] :
          base_url \in KeyBaseUrls, api_key \in {"k1", "k2"} }
KeyResolves ==
    { [plugin_id |-> plugin_id, selection |-> selection, config |-> cfg] :
          plugin_id \in {"codex", "claude"}, selection \in KeySelections,
          cfg \in KeyConfigs }

KeyInit ==
    /\ Idle
    /\ \E old \in KeyResolves : \E new \in KeyResolves :
           fn_in = [fn |-> "key", old |-> old, new |-> new]

\* lines 600-610: the key a resolve looks up and stores under
ResolveKey(r) == CacheKey(r.plugin_id, Trim(r.selection), r.config)

ApplyKey ==
    /\ fn_out = None
    /\ fn_out' = Some([old |-> ResolveKey(fn_in.old),
                       new |-> ResolveKey(fn_in.new)])
    /\ UNCHANGED << fn_in, batchVars >>

KeySpec == KeyInit /\ [][ApplyKey]_vars

KeysComputed == DOMAIN fn_in = {"fn", "old", "new"} /\ IsSome(fn_out)

(***************************************************************************)
(* C11.  A resolve made under one remote configuration and a resolve made  *)
(* under another never share a cache key, so that nothing cached before a  *)
(* change of the base URL or of the secret is served after it.             *)
(***************************************************************************)
C11_ConfigChangeInvalidates ==
    KeysComputed =>
        (fn_in.old.config # fn_in.new.config
             => Unwrap(fn_out).old # Unwrap(fn_out).new)

(***************************************************************************)
(* The overlay builder on its own: start_probe_batch stands in the loop of *)
(* line 866 with one plugin, its selection, the remote configuration and   *)
(* the catalog it fetched; the cache is empty or holds something under the *)
(* key of the resolve.                                                     *)
(***************************************************************************)
ResolvePlugins == {"codex", "claude", "kimi", "antigravity", "gemini", "mock"}
ResolveSelection == << " ", "x", " " >>
ResolveConfig == [base_url |-> << "http://proxy" >>, api_key |-> "k1"]

ProviderTags ==
    { << "codex" >>, << " ", "Codex", " " >>, << "Anthropic" >>,
      << "claude" >>, << "kimi" >>, << "Google" >>, << "google-ai" >>,
      << "gemini-cli" >>, << "gemini" >>, << "ANTIGRAVITY" >>,
      << "openai" >> }

\* catalog entries that the selection "x" names by id, by name, by
\* auth_index, or not at all
CatalogEntries ==
    { AuthFile(id, name, provider, disabled, unavailable, auth_index) :
          id \in {<< "x" >>, << "id-1" >>},
          name \in {<< "x" >>, << "one.json" >>},
          provider \in ProviderTags,
          disabled \in BOOLEAN, unavailable \in BOOLEAN,
          auth_index \in {None, Some(<< "x" >>)} }

\* a second entry named "x", usable for codex, behind the first
Shadowed == AuthFile(<< "id-2" >>, << "x" >>, << "codex" >>, FALSE, FALSE, None)

ResolveCatalogs ==
    { << >> } \cup { << entry >> : entry \in CatalogEntries }
        \cup { << entry, Shadowed >> :
                   entry \in {e \in CatalogEntries :
                                  e.provider \in {<< "codex" >>, << "openai" >>}} }

ResolveCaches(plugin_id) ==
    { EmptyMap,
      MapInsert(EmptyMap,
                CacheKey(plugin_id, Trim(ResolveSelection), ResolveConfig),
                Malformed) }

ResolveInit ==
    /\ \E plugin_id \in ResolvePlugins :
          /\ loaded = << Plugin(plugin_id, plugin_id) >>
          /\ selected_plugins = [b \in Batches |->
                 IF b = 1 THEN loaded ELSE << >>]
          /\ req = [b \in Batches |->
                 IF b = 1
                 THEN [batch_id |-> None, plugin_ids |-> None,
                       account_selections |->
                           Some(MapInsert(EmptyMap, plugin_id,
                                          ResolveSelection))]
                 ELSE NoRequest]
          /\ cache \in ResolveCaches(plugin_id)
    /\ now = Now0
    /\ budget = 0
    /\ slots = {1}
    /\ bpc = [b \in Batches |-> IF b = 1 THEN "prepare" ELSE "idle"]
    /\ batch_id = [b \in Batches |->
           IF b = 1 THEN NormalizeBatchId(None, 1) ELSE << >>]
    /\ response = [b \in Batches |-> None]
    /\ config = [b \in Batches |->
           IF b = 1 THEN Some(ResolveConfig) ELSE None]
    /\ \E files \in ResolveCatalogs :
           auth_files = [b \in Batches |-> IF b = 1 THEN files ELSE << >>]
    /\ cursor = [b \in Batches |-> IF b = 1 THEN 1 ELSE 0]
    /\ pending = [b \in Batches |-> None]
    /\ prepared_overlays = [b \in Batches |-> EmptyMap]
    /\ overlay_errors = [b \in Batches |-> EmptyMap]
    /\ overlays = [b \in Batches |-> EmptyMap]
    /\ remaining = [b \in Batches |-> None]
    /\ wpc = [b \in Batches |->
           IF b = 1 THEN << "unspawned" >> ELSE << >>]
    /\ wresult = [b \in Batches |-> IF b = 1 THEN << None >> ELSE << >>]
    /\ observed = [b \in Batches |-> IF b = 1 THEN << None >> ELSE << >>]
    /\ events = [b \in Batches |-> << >>]
    /\ sandbox = [b \in Batches |-> {}]
    /\ trace = [b \in Batches |-> << >>]
    /\ locks = {}
    /\ fn_in = << >>
    /\ fn_out = None

ResolveNext ==
    \/ \E b \in Batches : PrepareLookup(b)
    \/ \E b \in Batches : PrepareStore(b)

ResolveSpec == ResolveInit /\ [][ResolveNext]_vars

(***************************************************************************)
(* C12.  On a cache miss the download is attempted exactly when the first  *)
(* catalog entry that the selection names by id, name or auth_index is     *)
(* neither disabled nor unavailable and carries a provider tag that folds  *)
(* to the plugin id; an overlay comes only from such an entry, and when    *)
(* there is none or it is rejected there is no download, no overlay, and   *)
(* the cache stays as it was.                                              *)
(***************************************************************************)
ExpectedProviderKey(tag) ==
    CASE tag \in {<< "codex" >>, << " ", "Codex", " " >>} -> "codex"
      [] tag \in {<< "Anthropic" >>, << "claude" >>} -> "claude"
      [] tag = << "kimi" >> -> "kimi"
      [] tag \in {<< "Google" >>, << "google-ai" >>, << "gemini-cli" >>,
                  << "gemini" >>} -> "gemini"
      [] tag = << "ANTIGRAVITY" >> -> "antigravity"
      [] OTHER -> "no plugin"

Names(entry, selected) ==
    \/ entry.id = selected
    \/ entry.name = selected
    \/ entry.auth_index = Some(selected)

C12_Lookup(b) ==
    LET plugin_id == selected_plugins[b][cursor[b]].id
        selected == Trim(Selections(b)[plugin_id])
        cache_key == CacheKey(plugin_id, selected, Unwrap(config[b]))
        hit == /\ cache_key \in DOMAIN cache
               /\ ShouldUseCachedOverlay(plugin_id, cache[cache_key], now)
        called == /\ plugin_id \in DOMAIN Selections(b)
                  /\ SupportsCredentialOverlay(plugin_id)
                  /\ selected # << >>
        files == auth_files[b]
        naming == {i \in DOMAIN files : Names(files[i], selected)}
        accepted ==
            \E i \in naming :
                /\ \A j \in naming : i <= j
                /\ ~files[i].disabled
                /\ ~files[i].unavailable
                /\ ExpectedProviderKey(files[i].provider) = plugin_id
        downloads == \E i \in DOMAIN trace'[b] : trace'[b][i] = "download"
    IN  (called /\ ~hit) =>
            /\ downloads <=> accepted
            /\ bpc'[b] = "store" => accepted
            /\ ~accepted =>
                   /\ cache' = cache
                   /\ pending'[b] = None
                   /\ overlays'[b] = overlays[b]
                   /\ prepared_overlays'[b] = prepared_overlays[b]
                   /\ plugin_id \in DOMAIN overlay_errors'[b]

C12_CatalogEntryGate ==
    [][\A b \in Batches : LookupStep(b) => C12_Lookup(b)]_vars

\* a claude resolve went through an enabled entry tagged "Anthropic" that the
\* selection names by auth_index only, and produced its overlay
C12_Witness ==
    /\ "claude" \in DOMAIN prepared_overlays[1]
    /\ Len(auth_files[1]) = 1
    /\ auth_files[1][1].provider = << "Anthropic" >>
    /\ auth_files[1][1].id # << "x" >>
    /\ auth_files[1][1].name # << "x" >>
    /\ trace[1] = << "cache_get", "find", "download", "transform",
                     "cache_insert" >>

(***************************************************************************)
(* The normalisers on their own, next to the resolve that calls them: a    *)
(* downloaded payload is drawn with its tokens at the root, in the nested  *)
(* token object, unreadable or missing.                                    *)
(***************************************************************************)
Blank == JStr(Lit(TRUE, "empty", BigZero))
Huge == JStr(Lit(FALSE, "int", I64Max))

\* the ways a token can stand at the root: the value stored, if any
RootAccess ==
    [absent |-> None, snake |-> Some(Token("at")), camel |-> Some(Token("at")),
     blank |-> Some(Blank), number |-> Some(JNum(BigOfInt(7))),
     null |-> Some(JNull)]
RootRefresh ==
    [absent |-> None, snake |-> Some(Token("rt")), camel |-> Some(Token("rt")),
     blank |-> Some(Blank)]
\* the value under "token", if any
NestedToken ==
    [absent |-> None,
     access |-> Some(JObj([access_token |-> Token("at")])),
     refresh |-> Some(JObj([refreshToken |-> Token("rt")])),
     both |-> Some(JObj([accessToken |-> Token("at"),
                         refresh_token |-> Token("rt")])),
     string |-> Some(Token("at"))]

PutValue(object, key, value) ==
    IF IsSome(value) THEN MapInsert(object, key, Unwrap(value)) ELSE object

TransformPayload(access, refresh, token, ttl) ==
    Doc(JObj(PutValue(PutValue(PutValue(PutValue(EmptyMap,
        IF access = "camel" THEN "accessToken" ELSE "access_token",
        RootAccess[access]),
        IF refresh = "camel" THEN "refreshToken" ELSE "refresh_token",
        RootRefresh[refresh]),
        "token", NestedToken[token]),
        "expires_in", IF ttl THEN Some(Huge) ELSE None)))

\* which tokens the payload holds in a readable form
TransformCase(access, refresh, token, ttl) ==
    [raw |-> TransformPayload(access, refresh, token, ttl),
     access_root |-> access \in {"snake", "camel", "number"},
     refresh_root |-> refresh \in {"snake", "camel"},
     access_nested |-> token \in {"access", "both"},
     refresh_nested |-> token \in {"refresh", "both"}]

Unreadable(raw) ==
    [raw |-> raw, access_root |-> FALSE, refresh_root |-> FALSE,
     access_nested |-> FALSE, refresh_nested |-> FALSE]

TransformCases ==
    { TransformCase(access, refresh, token, ttl) :
          access \in DOMAIN RootAccess, refresh \in DOMAIN RootRefresh,
          token \in DOMAIN NestedToken, ttl \in BOOLEAN }
        \cup { Unreadable(Malformed), Unreadable(Doc(JArr)) }

TransformInit ==
    /\ Idle
    /\ \E plugin_id \in ResolvePlugins \cup {"opencode"} :
       \E case \in TransformCases :
           fn_in = [fn |-> "transform", plugin_id |-> plugin_id,
                    case |-> case]

\* line 669: the normaliser is applied to what was downloaded
ApplyTransform ==
    /\ DOMAIN fn_in = {"fn", "plugin_id", "case"}
    /\ fn_in.fn = "transform"
    /\ fn_out = None
    /\ fn_out' = Some(TransformAuthPayloadForPlugin(fn_in.plugin_id,
                                                    fn_in.case.raw, now))
    /\ UNCHANGED << fn_in, batchVars >>

NormalizeInit == TransformInit \/ ResolveInit

NormalizeNext ==
    \/ ApplyTransform
    \/ \E b \in Batches : PrepareLookup(b)
    \/ \E b \in Batches : PrepareStore(b)

NormalizeSpec == NormalizeInit /\ [][NormalizeNext]_vars

(***************************************************************************)
(* C13.  The normaliser returns an error exactly when a token it requires  *)
(* is not there to be read: codex, claude and kimi need an access token    *)
(* and a refresh token, antigravity an access token, gemini one of the two *)
(* at the root or under "token"; every other plugin id is refused.  A      *)
(* resolve whose normaliser returns an error produces no overlay and       *)
(* leaves the cache as it was.                                             *)
(***************************************************************************)
RequiredAbsent(plugin_id, case) ==
    CASE plugin_id \in {"codex", "claude", "kimi"} ->
             ~case.access_root \/ ~case.refresh_root
      [] plugin_id = "antigravity" -> ~case.access_root
      [] plugin_id = "gemini" ->
             /\ ~(case.access_root \/ case.access_nested)
             /\ ~(case.refresh_root \/ case.refresh_nested)
      [] OTHER -> TRUE

ReturnedErr(result) == ~result.ok /\ ~result.fault

C13_Transform ==
    (/\ DOMAIN fn_in = {"fn", "plugin_id", "case"}
     /\ fn_in.fn = "transform"
     /\ IsSome(fn_out)) =>
        (ReturnedErr(Unwrap(fn_out))
             <=> RequiredAbsent(fn_in.plugin_id, fn_in.case))

C13_Lookup(b) ==
    LET plugin_id == selected_plugins[b][cursor[b]].id
        transformed == \E i \in DOMAIN trace'[b] : trace'[b][i] = "transform"
    IN  (transformed /\ bpc'[b] # "store") =>
            /\ \E raw \in RawPayloads :
                   ReturnedErr(TransformAuthPayloadForPlugin(plugin_id, raw,
                                                             now))
            /\ cache' = cache
            /\ pending'[b] = None
            /\ overlays'[b] = overlays[b]
            /\ prepared_overlays'[b] = prepared_overlays[b]
            /\ plugin_id \in DOMAIN overlay_errors'[b]

C13_RequiredFields ==
    /\ []C13_Transform
    /\ [][\A b \in Batches : LookupStep(b) => C13_Lookup(b)]_vars

\* antigravity refused a payload whose access token is blank although its
\* refresh token is there
C13_Witness ==
    /\ DOMAIN fn_in = {"fn", "plugin_id", "case"}
    /\ fn_in.fn = "transform"
    /\ fn_in.plugin_id = "antigravity"
    /\ fn_in.case = TransformCase("blank", "snake", "absent", FALSE)
    /\ fn_out = Some(TransformErr("missing access_token"))

(***************************************************************************)
(* C14.  Overlay write-back: when a probe that ran with an overlay has     *)
(* replaced the content at any of the plugin's credential paths, the       *)
(* write-back of its worker leaves that content in the cache under the     *)
(* overlay's cache key.                                                    *)
(***************************************************************************)
PersistStep(b, w) ==
    /\ b \in slots
    /\ w \in DOMAIN wpc[b]
    /\ wpc[b][w] = "persist"
    /\ wpc'[b][w] = "emit"

ReplacedAt(b, w) ==
    LET target_paths == CredentialTargetPaths(PluginOf(b, w).id)
    IN  { i \in DOMAIN target_paths :
            /\ target_paths[i] \in DOMAIN overlays[b][PluginOf(b, w).id]
            /\ overlays[b][PluginOf(b, w).id][target_paths[i]] = Refreshed }

C14_Persist(b, w) ==
    LET prepared == prepared_overlays[b][PluginOf(b, w).id]
    IN  (w \in sandbox[b] /\ ReplacedAt(b, w) # {}) =>
            MapGet(cache', Unwrap(prepared.cache_key)) = Some(Refreshed)

C14_WriteBack ==
    [][\A b \in Batches : \A w \in 1..MaxRequested :
          PersistStep(b, w) => C14_Persist(b, w)]_vars

(***************************************************************************)
(* run_probe on its own: one script is run, its output recorded; and      *)
(* plugin_error_output, the output the orchestrator makes without a run.   *)
(***************************************************************************)
PercentEntry(limit) ==
    JsObject([type |-> JsString(<< "progress" >>),
              label |-> JsString(<< "Session" >>),
              used |-> JsNumber(Num(1)), limit |-> JsNumber(limit),
              format |-> JsObject([kind |-> JsString(<< "percent" >>)])])

\* what a script can throw or reject with
ThrownValues ==
    { JsUndefined, JsNull, JsNumber(Num(42)), JsString(<< "boom" >>),
      JsString(<< " ", "boom", " " >>), JsString(<< " " >>),
      JsString(<< >>),
      JsObject([message |-> JsString(<< "boom" >>)]) }

ResultPlans ==
    { None, Some(JsString(<< "pro" >>)), Some(JsString(<< >>)),
      Some(JsNumber(Num(1))) }
ResultLines ==
    { None, Some(JsNull), Some(JsArray(<< >>)),
      Some(JsArray(<< TextEntry >>)),
      Some(JsArray(<< TextEntry, PercentEntry(Num(50)) >>)),
      Some(JsArray(<< PercentEntry(Num(50)) >>)),
      Some(JsArray(<< JsNumber(Num(7)) >>)) }

\* what probe can return, or its promise resolve to
ReturnedValues ==
    { JsUndefined, JsNull, JsNumber(Num(42)), JsString(<< "x" >>),
      JsArray(<< >>) }
    \cup { JsObject(PutValue(PutValue(EmptyMap, "plan", plan), "lines",
                             lines)) :
             plan \in ResultPlans, lines \in ResultLines }

ProbeBodies ==
    { Throws(v) : v \in ThrownValues }
    \cup { Returns(v) : v \in ReturnedValues }
    \cup { Returns(JsPromise("pending", JsUndefined)) }
    \cup { Returns(JsPromise("fulfilled", v)) : v \in ReturnedValues }
    \cup { Returns(JsPromise("rejected", v)) : v \in ThrownValues }

PluginValues ==
    { JsUndefined, JsNumber(Num(1)), JsObject(EmptyMap),
      JsObject([probe |-> JsNumber(Num(1))]),
      JsObject([probe |-> JsObject(EmptyMap)]) }
    \cup { JsObject([probe |-> JsFunction(body)]) : body \in ProbeBodies }

SetupFaults ==
    { "Runtime::new", "Context::full", "inject_host_api",
      "patch_http_wrapper", "patch_ls_wrapper", "inject_utils" }

Scripts ==
    { Script(setup, eval_ok, plugin_value) :
        setup \in SetupFaults \cup {"none"}, eval_ok \in BOOLEAN,
        plugin_value \in PluginValues }

OverlayMessages == {MsgNotConfigured, MsgConfigRead, MsgCatalog, MsgAccount}

ProbeInit ==
    /\ Idle
    /\ \/ \E script \in Scripts :
             fn_in = [fn |-> "run_probe", plugin |-> TestPlugin,
                      script |-> script]
       \/ \E message \in OverlayMessages :
             fn_in = [fn |-> "plugin_error_output", plugin |-> TestPlugin,
                      message |-> message]

\* lib.rs line 959: the worker runs the probe
ApplyRunProbe ==
    /\ DOMAIN fn_in = {"fn", "plugin", "script"}
    /\ fn_in.fn = "run_probe"
    /\ fn_out = None
    /\ fn_out' = Some(RunProbe(fn_in.plugin, fn_in.script))
    /\ UNCHANGED << fn_in, batchVars >>

\* lib.rs lines 948-950: the worker of a plugin whose overlay failed
ApplyPluginErrorOutput ==
    /\ DOMAIN fn_in = {"fn", "plugin", "message"}
    /\ fn_in.fn = "plugin_error_output"
    /\ fn_out = None
    /\ fn_out' = Some([output |-> PluginErrorOutput(fn_in.plugin,
                                                    fn_in.message),
                       steps |-> << >>])
    /\ UNCHANGED << fn_in, batchVars >>

ProbeNext == ApplyRunProbe \/ ApplyPluginErrorOutput

ProbeSpec == ProbeInit /\ [][ProbeNext]_vars

RanProbe ==
    /\ DOMAIN fn_in = {"fn", "plugin", "script"}
    /\ fn_in.fn = "run_probe"
    /\ IsSome(fn_out)

MadeErrorOutput ==
    /\ DOMAIN fn_in = {"fn", "plugin", "message"}
    /\ fn_in.fn = "plugin_error_output"
    /\ IsSome(fn_out)

(***************************************************************************)
(* C15.  Every output made for a plugin, by run_probe on any of its paths  *)
(* or by the orchestrator for an overlay error, has at least one line.     *)
(***************************************************************************)
C15_LinesNeverEmpty ==
    (RanProbe \/ MadeErrorOutput) => Len(Unwrap(fn_out).output.lines) >= 1

\* a probe whose result object has an empty lines array
C15_Witness ==
    /\ RanProbe
    /\ fn_in.script.setup = "none"
    /\ fn_in.script.eval_ok
    /\ fn_in.script.plugin_value =
           JsObject([probe |-> JsFunction(Returns(
               JsObject([lines |-> JsArray(<< >>)])))])
    /\ Unwrap(fn_out).output.lines = << ErrorLine("no lines returned") >>

(***************************************************************************)
(* C16.  The sandbox makes its calls in one fixed order: set-up of the     *)
(* capability surface, evaluation of the script, look-up of the plugin     *)
(* object, look-up of probe, the call, the drive of the promise, the       *)
(* validation.  The first of them that fails ends the probe: the output is *)
(* one error badge with the message of that step and no plan, and no later *)
(* call is made; probe is not called after a failed evaluation or look-up. *)
(***************************************************************************)
FixedOrder ==
    << "Runtime::new", "Context::full", "inject_host_api",
       "patch_http_wrapper", "patch_ls_wrapper", "inject_utils", "eval",
       "get __openusage_plugin", "get probe", "call", "finish",
       "parse_lines" >>

Position(step) == CHOOSE i \in DOMAIN FixedOrder : FixedOrder[i] = step

\* the steps are steps of the fixed order, each later in it than the one before
InFixedOrder(steps) ==
    /\ \A i \in DOMAIN steps :
           \E j \in DOMAIN FixedOrder : FixedOrder[j] = steps[i]
    /\ \A i \in DOMAIN steps :
           i > 1 => Position(steps[i - 1]) < Position(steps[i])

\* the first step this script makes fail, before probe is called
FirstFailure(script) ==
    IF script.setup # "none" THEN script.setup
    ELSE IF ~script.eval_ok THEN "eval"
    ELSE IF script.plugin_value.t \notin
                {"object", "array", "function", "promise"}
    THEN "get __openusage_plugin"
    ELSE IF ~(/\ script.plugin_value.t = "object"
              /\ "probe" \in DOMAIN script.plugin_value.f
              /\ script.plugin_value.f["probe"].t = "function")
    THEN "get probe"
    ELSE "none"

StepMessage(step) ==
    CASE step \in {"Runtime::new", "Context::full"} -> "runtime error"
      [] step = "inject_host_api" -> "host api injection failed"
      [] step = "patch_http_wrapper" -> "http wrapper patch failed"
      [] step = "patch_ls_wrapper" -> "ls wrapper patch failed"
      [] step = "inject_utils" -> "utils injection failed"
      [] step = "eval" -> "script eval failed"
      [] step = "get __openusage_plugin" -> "missing __openusage_plugin"
      [] step = "get probe" -> "missing probe()"

C16_FixedStepOrder ==
    RanProbe =>
        LET ran == Unwrap(fn_out)
            failed == FirstFailure(fn_in.script)
        IN  /\ InFixedOrder(ran.steps)
            /\ failed # "none" =>
                   /\ ran.steps = SubSeq(FixedOrder, 1, Position(failed))
                   /\ ran.output.lines = << ErrorLine(StepMessage(failed)) >>
                   /\ ran.output.plan = None
            /\ failed = "none" =>
                   /\ Len(ran.steps) >= Position("call")
                   /\ SubSeq(ran.steps, 1, Position("call"))
                          = SubSeq(FixedOrder, 1, Position("call"))
            /\ \A i \in DOMAIN ran.steps :
                   ran.steps[i] = "finish" =>
                       fn_in.script.plugin_value.f["probe"].body.v.t
                           = "promise"

\* the script defines a plugin with a probe and then fails at top level:
\* probe is not called
C16_Witness ==
    /\ RanProbe
    /\ fn_in.script.setup = "none"
    /\ ~fn_in.script.eval_ok
    /\ fn_in.script.plugin_value =
           JsObject([probe |-> JsFunction(Returns(
               JsObject([lines |-> JsArray(<< TextEntry >>)])))])
    /\ Unwrap(fn_out).steps[Len(Unwrap(fn_out).steps)] = "eval"
    /\ Unwrap(fn_out).output = ErrorOutput(fn_in.plugin, "script eval failed")

(***************************************************************************)
(* C17.  When probe throws, or the promise it returned rejects, the output *)
(* is one error badge.  As claimed: its text is the thrown value verbatim  *)
(* when that is a string and the generic message otherwise.  As the code   *)
(* has it: its text is the thrown string without the whitespace around it  *)
(* when that leaves something, and the generic message otherwise.  Either  *)
(* way a throw and a rejection with the same value give the same text.     *)
(***************************************************************************)
Callable(script) ==
    /\ script.setup = "none"
    /\ script.eval_ok
    /\ script.plugin_value.t = "object"
    /\ "probe" \in DOMAIN script.plugin_value.f
    /\ script.plugin_value.f["probe"].t = "function"

ProbeBody(script) == script.plugin_value.f["probe"].body

ThrewSync(script) == Callable(script) /\ ProbeBody(script).throws
Rejected(script) ==
    /\ Callable(script)
    /\ ~ProbeBody(script).throws
    /\ ProbeBody(script).v.t = "promise"
    /\ ProbeBody(script).v.state = "rejected"

ThrownValue(script) ==
    IF ProbeBody(script).throws THEN ProbeBody(script).v
    ELSE ProbeBody(script).v.v

\* the same script with the throw turned into a rejection, or back
Mirrored(script) ==
    Script(script.setup, script.eval_ok,
           JsObject([probe |-> JsFunction(
               IF ProbeBody(script).throws
               THEN Returns(JsPromise("rejected", ThrownValue(script)))
               ELSE Throws(ThrownValue(script)))]))

VerbatimText(v) == IF v.t = "string" THEN Flat(v.s) ELSE GenericFailure
TrimmedText(v) ==
    IF v.t = "string" /\ Trim(v.s) # << >> THEN Flat(Trim(v.s))
    ELSE GenericFailure

ProbeFailed ==
    RanProbe /\ (ThrewSync(fn_in.script) \/ Rejected(fn_in.script))

SameWhenMirrored ==
    RunProbe(fn_in.plugin, Mirrored(fn_in.script)).output
        = Unwrap(fn_out).output

C17_ThrownStringVerbatim ==
    ProbeFailed =>
        /\ Unwrap(fn_out).output.lines
               = << ErrorLine(VerbatimText(ThrownValue(fn_in.script))) >>
        /\ SameWhenMirrored

C17_ThrownStringTrimmed ==
    ProbeFailed =>
        /\ Unwrap(fn_out).output.lines
               = << ErrorLine(TrimmedText(ThrownValue(fn_in.script))) >>
        /\ SameWhenMirrored

\* a promise rejected with " boom " is reported as "boom"
C17_Witness ==
    /\ RanProbe
    /\ Rejected(fn_in.script)
    /\ ThrownValue(fn_in.script) = JsString(<< " ", "boom", " " >>)
    /\ Unwrap(fn_out).output.lines = << ErrorLine("boom") >>

(***************************************************************************)
(* C18.  A probe whose promise is still pending once no job is left is     *)
(* reported as "returned unresolved promise"; a probe whose returned       *)
(* value, or whose promise's resolved value, is not an object is reported  *)
(* as "returned non-object".  Neither is reported with the generic message *)
(* of a thrown value.                                                      *)
(***************************************************************************)
Pending(script) ==
    /\ Callable(script)
    /\ ~ProbeBody(script).throws
    /\ ProbeBody(script).v.t = "promise"
    /\ ProbeBody(script).v.state = "pending"

NotAnObject(v) == v.t \in {"undefined", "null", "bool", "number", "string"}

ReturnedNonObject(script) ==
    /\ Callable(script)
    /\ ~ProbeBody(script).throws
    /\ NotAnObject(ProbeBody(script).v)

ResolvedNonObject(script) ==
    /\ Callable(script)
    /\ ~ProbeBody(script).throws
    /\ ProbeBody(script).v.t = "promise"
    /\ ProbeBody(script).v.state = "fulfilled"
    /\ NotAnObject(ProbeBody(script).v.v)

C18_UnresolvedAndNonObject ==
    RanProbe =>
        /\ Pending(fn_in.script) =>
               Unwrap(fn_out).output.lines
                   = << ErrorLine("probe() returned unresolved promise") >>
        /\ (ReturnedNonObject(fn_in.script)
                \/ ResolvedNonObject(fn_in.script)) =>
               Unwrap(fn_out).output.lines
                   = << ErrorLine("probe() returned non-object") >>

(***************************************************************************)
(* The validator on its own: the result object of a probe is validated.    *)
(***************************************************************************)
MaxLines == 2

BadgeEntry == JsObject([type |-> JsString(<< "badge" >>),
                        label |-> JsString(<< "Status" >>),
                        text |-> JsString(<< "ok" >>)])
UnknownEntry == JsObject([type |-> JsString(<< "gauge" >>),
                          label |-> JsString(<< "Load" >>)])

UsedValues ==
    { None, Some(JsString(<< "1" >>)), Some(JsNumber(Num(-1))),
      Some(JsNumber(Half(-1))), Some(JsNumber(Num(0))),
      Some(JsNumber(Num(1))), Some(JsNumber(NaN)),
      Some(JsNumber(Infinity)) }
LimitValues ==
    { None, Some(JsNull), Some(JsNumber(Num(0))), Some(JsNumber(Num(-1))),
      Some(JsNumber(Num(50))), Some(JsNumber(Num(100))),
      Some(JsNumber(NaN)), Some(JsNumber(Infinity)) }
FormatValues ==
    { None, Some(JsString(<< "percent" >>)),
      Some(JsObject(EmptyMap)),
      Some(JsObject([kind |-> JsNumber(Num(1))])),
      Some(JsObject([kind |-> JsString(<< "percent" >>)])),
      Some(JsObject([kind |-> JsString(<< "dollars" >>)])),
      Some(JsObject([kind |-> JsString(<< "count" >>)])),
      Some(JsObject([kind |-> JsString(<< "count" >>),
                     suffix |-> JsNumber(Num(1))])),
      Some(JsObject([kind |-> JsString(<< "count" >>),
                     suffix |-> JsString(<< " " >>)])),
      Some(JsObject([kind |-> JsString(<< "count" >>),
                     suffix |-> JsString(<< " ", "req", " " >>)])),
      Some(JsObject([kind |-> JsString(<< " ", "percent" >>)])) }

ProgressEntry(used, limit, format) ==
    JsObject(PutValue(PutValue(PutValue(
        [type |-> JsString(<< "progress" >>),
         label |-> JsString(<< "Session" >>)],
        "used", used), "limit", limit), "format", format))

ProgressEntries ==
    { ProgressEntry(used, limit, format) :
        used \in UsedValues, limit \in LimitValues, format \in FormatValues }

\* the entries a lines array is made of
LineEntries ==
    { TextEntry, BadgeEntry, UnknownEntry, JsNumber(Num(7)), JsNull,
      JsArray(<< >>), PercentEntry(Num(100)), PercentEntry(Num(50)),
      ProgressEntry(Some(JsNumber(Num(3))), Some(JsNumber(Num(10))),
                    Some(JsObject([kind |-> JsString(<< "count" >>),
                                   suffix |-> JsString(<< "req" >>)]))),
      ProgressEntry(Some(JsNumber(Num(-1))), Some(JsNumber(Num(10))),
                    Some(JsObject([kind |-> JsString(<< "dollars" >>)]))) }

ResetsAtValues ==
    { None, Some(JsNull), Some(JsNumber(Num(1))), Some(JsString(<< >>)),
      Some(JsString(<< " " >>)),
      Some(JsString(<< "2099-01-01", "T", "00:00:00", "Z" >>)),
      Some(JsString(<< " ", "2099-01-01", "T", "00:00:00", "+01:00", " " >>)),
      Some(JsString(<< "2099-01-01", "T", "00:00:00" >>)),
      Some(JsString(<< "2099-01-01", "T", "soon" >>)),
      Some(JsString(<< "2099-01-01", " ", "00:00:00" >>)),
      Some(JsString(<< "soon" >>)) }
PeriodValues ==
    { None, Some(JsNull), Some(JsString(<< "60000" >>)),
      Some(JsNumber(Num(0))), Some(JsNumber(Num(-5))),
      Some(JsNumber(Half(1))), Some(JsNumber(Half(3))),
      Some(JsNumber(Num(60000))), Some(JsNumber(NaN)),
      Some(JsNumber(Infinity)), Some(JsNumber(NegInfinity)) }

\* a dollars entry, valid with limit 10 and invalid with limit 0, with the
\* optional fields of lines 309-386
OptionalEntries ==
    { JsObject(PutValue(PutValue(
          ProgressEntry(Some(JsNumber(Num(1))), Some(JsNumber(limit)),
              Some(JsObject([kind |-> JsString(<< "dollars" >>)]))).f,
          "resetsAt", resets_at), "periodDurationMs", period) ) :
        limit \in {Num(10), Num(0)}, resets_at \in ResetsAtValues,
        period \in PeriodValues }

LinesInit ==
    /\ Idle
    /\ \E lines \in SeqsUpTo(LineEntries, MaxLines)
                      \cup { << entry >> : entry \in ProgressEntries }
                      \cup { << entry >> : entry \in OptionalEntries } :
           fn_in = [fn |-> "parse_lines", plugin |-> TestPlugin,
                    result |-> JsObject([lines |-> JsArray(lines)])]

\* runtime.rs lines 132-146: the result object is validated
ApplyValidate ==
    /\ DOMAIN fn_in = {"fn", "plugin", "result"}
    /\ fn_in.fn = "parse_lines"
    /\ fn_out = None
    /\ fn_out' = Some(ValidatedOutput(fn_in.plugin, fn_in.result))
    /\ UNCHANGED << fn_in, batchVars >>

LinesSpec == LinesInit /\ [][ApplyValidate]_vars

Validated ==
    /\ DOMAIN fn_in = {"fn", "plugin", "result"}
    /\ fn_in.fn = "parse_lines"
    /\ IsSome(fn_out)

Entries == fn_in.result.f["lines"].a

\* what the rules of the validator say of one entry, read off the entry
IsNumberIn(entry, key) ==
    key \in DOMAIN entry.f /\ entry.f[key].t = "number"
TypeOf(entry) ==
    IF entry.t = "object" /\ "type" \in DOMAIN entry.f
           /\ entry.f["type"].t = "string"
    THEN Flat(entry.f["type"].s) ELSE ""

ValidFormat(entry) ==
    /\ "format" \in DOMAIN entry.f
    /\ entry.f["format"].t = "object"
    /\ "kind" \in DOMAIN entry.f["format"].f
    /\ LET format == entry.f["format"].f
       IN  \/ /\ format["kind"] = JsString(<< "percent" >>)
              /\ entry.f["limit"].x = Num(100)
           \/ format["kind"] = JsString(<< "dollars" >>)
           \/ /\ format["kind"] = JsString(<< "count" >>)
              /\ "suffix" \in DOMAIN format
              /\ format["suffix"].t = "string"
              /\ \E i \in DOMAIN format["suffix"].s :
                     format["suffix"].s[i] # " "

ValidProgress(entry) ==
    /\ IsNumberIn(entry, "used")
    /\ IsNumberIn(entry, "limit")
    /\ entry.f["used"].x.k = "finite" /\ entry.f["used"].x.h >= 0
    /\ entry.f["limit"].x.k = "finite" /\ entry.f["limit"].x.h > 0
    /\ ValidFormat(entry)

BadEntry(entry) ==
    \/ TypeOf(entry) \notin {"text", "badge", "progress"}
    \/ TypeOf(entry) = "progress" /\ ~ValidProgress(entry)

IsErrorBadge(line) == line.type = "badge" /\ line.label = "Error"

\* the entries with every entry but the j-th replaced by a valid text entry
Alone(entries, j) ==
    [i \in DOMAIN entries |-> IF i = j THEN entries[i] ELSE TextEntry]

(***************************************************************************)
(* C19.  The validator isolates faults per line: a lines array of n >= 1   *)
(* entries gives n lines in the order of the entries; a bad entry becomes  *)
(* an error badge at its own index, and the line at every index is what it *)
(* would be whatever the other entries are.                                *)
(***************************************************************************)
C19_PerLineIsolation ==
    (Validated /\ Len(Entries) >= 1) =>
        LET lines == Unwrap(fn_out).lines
        IN  /\ Len(lines) = Len(Entries)
            /\ \A j \in DOMAIN Entries :
                   /\ BadEntry(Entries[j]) => IsErrorBadge(lines[j])
                   /\ ~BadEntry(Entries[j]) =>
                          lines[j].type = TypeOf(Entries[j])
                   /\ lines[j] = ValidatedOutput(fn_in.plugin,
                          JsObject([lines |-> JsArray(Alone(Entries, j))])
                                   ).lines[j]

(***************************************************************************)
(* C20.  Every Progress line the validator emits has used >= 0 and         *)
(* limit > 0, both finite, has limit 100 when its format is Percent, and a *)
(* trimmed suffix that is not empty when its format is Count; it is the    *)
(* line of an entry that meets these rules, so a percent entry with limit  *)
(* 50 is an error badge and no entry that breaks a rule is emitted as a    *)
(* Progress line.                                                          *)
(***************************************************************************)
TrimmedSuffix(entry) == Flat(Trim(entry.f["format"].f["suffix"].s))

C20_Line(entry, line) ==
    /\ ValidProgress(entry)
    /\ line.used.k = "finite" /\ line.used.h >= 0
    /\ line.limit.k = "finite" /\ line.limit.h > 0
    /\ line.used = entry.f["used"].x
    /\ line.limit = entry.f["limit"].x
    /\ line.format.kind \in {"percent", "dollars", "count"}
    /\ line.format.kind = "percent" => line.limit = Num(100)
    /\ line.format.kind = "count" =>
           /\ line.format.suffix # ""
           /\ line.format.suffix = TrimmedSuffix(entry)

C20_ProgressInvariants ==
    Validated =>
        LET lines == Unwrap(fn_out).lines
        IN  /\ \A j \in DOMAIN lines :
                   lines[j].type = "progress" =>
                       /\ Len(lines) = Len(Entries)
                       /\ TypeOf(Entries[j]) = "progress"
                       /\ C20_Line(Entries[j], lines[j])
            /\ Entries = << PercentEntry(Num(50)) >> =>
                   IsErrorBadge(lines[1])

\* a percent entry with limit 100 is emitted as a Progress line
C20_Witness ==
    /\ Validated
    /\ Entries = << PercentEntry(Num(100)) >>
    /\ Unwrap(fn_out).lines =
           << ProgressLine("Session", Num(1), Num(100), Percent, None, None,
                           None) >>

(***************************************************************************)
(* C21.  A probe whose result object has no lines to give gets exactly one *)
(* error badge.  As claimed: its text is "no lines returned" both when the *)
(* object has no lines field and when the lines array is empty.  As the    *)
(* code has it: "no lines returned" for an empty array, "missing lines"    *)
(* when there is no lines array to read.                                   *)
(***************************************************************************)
\* probe returned an object, or a promise that fulfilled with one
GaveObject(script) ==
    /\ Callable(script)
    /\ ~ProbeBody(script).throws
    /\ \/ ProbeBody(script).v.t \in {"object", "array"}
       \/ /\ ProbeBody(script).v.t = "promise"
          /\ ProbeBody(script).v.state = "fulfilled"
          /\ ProbeBody(script).v.v.t \in {"object", "array"}

ResultObject(script) ==
    IF ProbeBody(script).v.t = "promise" THEN ProbeBody(script).v.v
    ELSE ProbeBody(script).v

NoLinesField(result) ==
    result.t = "array" \/ "lines" \notin DOMAIN result.f
EmptyLinesArray(result) ==
    /\ result.t = "object"
    /\ "lines" \in DOMAIN result.f
    /\ result.f["lines"] = JsArray(<< >>)

C21_NoLinesReturned ==
    (RanProbe /\ GaveObject(fn_in.script)) =>
        ((NoLinesField(ResultObject(fn_in.script))
              \/ EmptyLinesArray(ResultObject(fn_in.script))) =>
            Unwrap(fn_out).output.lines
                = << ErrorLine("no lines returned") >>)

C21_NoLinesOrMissingLines ==
    (RanProbe /\ GaveObject(fn_in.script)) =>
        /\ NoLinesField(ResultObject(fn_in.script)) =>
               Unwrap(fn_out).output.lines = << ErrorLine("missing lines") >>
        /\ EmptyLinesArray(ResultObject(fn_in.script)) =>
               Unwrap(fn_out).output.lines
                   = << ErrorLine("no lines returned") >>

\* a result object with a plan and no lines field
C21_Witness ==
    /\ RanProbe
    /\ GaveObject(fn_in.script)
    /\ ResultObject(fn_in.script) = JsObject([plan |-> JsString(<< "pro" >>)])
    /\ Unwrap(fn_out).output.plan = Some("pro")
    /\ Unwrap(fn_out).output.lines = << ErrorLine("missing lines") >>

(***************************************************************************)
(* C22.  The optional fields of a progress entry do not change whether it  *)
(* is valid.  A resetsAt that is not a string or does not parse, and a     *)
(* periodDurationMs that is not a number or not positive, are left out of  *)
(* the Progress line, whose label, used, limit and format are those of the *)
(* entry without them; a periodDurationMs that is a positive number is     *)
(* kept.                                                                   *)
(***************************************************************************)
WithoutOptional(entry) ==
    JsObject([key \in DOMAIN entry.f \ {"resetsAt", "periodDurationMs"} |->
                 entry.f[key]])

HasOptional(entry) ==
    /\ entry.t = "object"
    /\ TypeOf(entry) = "progress"
    /\ DOMAIN entry.f \cap {"resetsAt", "periodDurationMs"} # {}

\* the timestamps of ResetsAtValues that are RFC 3339, as given or once "Z"
\* is appended
ReadableResetsAt(entry) ==
    /\ "resetsAt" \in DOMAIN entry.f
    /\ entry.f["resetsAt"].t = "string"
    /\ LET kept == SelectSeq(entry.f["resetsAt"].s, LAMBDA p : p # " ")
       IN  kept \in { << "2099-01-01", "T", "00:00:00", "Z" >>,
                      << "2099-01-01", "T", "00:00:00", "+01:00" >>,
                      << "2099-01-01", "T", "00:00:00" >> }

PositiveNumber(entry, key) ==
    /\ key \in DOMAIN entry.f
    /\ entry.f[key].t = "number"
    /\ entry.f[key].x.k \in {"finite", "inf"}
    /\ entry.f[key].x.h > 0

Bare(line) ==
    IF line.type = "progress"
    THEN [line EXCEPT !.resets_at = None, !.period_duration_ms = None]
    ELSE line

C22_Frame(entry, line) ==
    LET alone == ValidatedOutput(fn_in.plugin,
                     JsObject([lines |-> JsArray(<< WithoutOptional(entry) >>)])
                 ).lines[1]
    IN  /\ Bare(line) = alone
        /\ line.type = "progress" =>
               /\ IsSome(line.resets_at) <=> ReadableResetsAt(entry)
               /\ IsSome(line.period_duration_ms)
                      <=> PositiveNumber(entry, "periodDurationMs")

C22_OptionalFields ==
    (Validated /\ Len(Entries) = 1 /\ HasOptional(Entries[1])) =>
        C22_Frame(Entries[1], Unwrap(fn_out).lines[1])

(***************************************************************************)
(* Probes one after another in one process (runtime.rs 53-92).  A script   *)
(* may define globals when it is evaluated and may act on a global it      *)
(* finds defined: it is `seen` when the global it reads is there and       *)
(* `unseen` when it is not.                                                *)
(***************************************************************************)
MaxProbes == 3

StatefulScript(writes, reads, seen, unseen) ==
    [writes |-> writes, reads |-> reads, seen |-> seen, unseen |-> unseen]

\* the context of an earlier call handed to the next one
NewContext_Kept(previous) == previous

\* lines 60-68: Runtime::new and Context::full make the globals of every call
\* anew; `previous` is what the context dropped last held
NewContext(previous) == {}

\* line 90: the evaluation in a context with these globals
Evaluate(script, globals) ==
    [globals |-> globals \cup script.writes,
     script |-> IF script.reads \in globals THEN script.seen
                ELSE script.unseen]

\* run_probe in a process whose last context held `previous`
RunProbeAfter(plugin, script, previous) ==
    LET evaluated == Evaluate(script, NewContext(previous))
    IN  [output |-> RunProbe(plugin, evaluated.script).output,
         globals |-> evaluated.globals]

StaleScript ==
    Script("none", TRUE,
           JsObject([probe |-> JsFunction(Returns(
               JsObject([plan |-> JsString(<< "stale" >>),
                         lines |-> JsArray(<< BadgeEntry >>)])))]))

StatefulScripts ==
    { \* leaves a global behind
      StatefulScript({"token"}, "none", PlanScript, PlanScript),
      \* reports what another script left behind
      StatefulScript({}, "token", StaleScript, PlanScript),
      \* counts its own runs
      StatefulScript({"runs"}, "runs", StaleScript, PlanScript),
      \* fails at top level once it finds its own trace
      StatefulScript({"runs"}, "runs", BrokenScript, PlanScript) }

Probes ==
    { [plugin |-> plugin, script |-> script] :
        plugin \in {TestPlugin, Plugin("codex", "codex")},
        script \in StatefulScripts }

StatelessInit ==
    /\ Idle
    /\ \E queue \in SeqsUpTo(Probes, MaxProbes) :
           fn_in = [fn |-> "probes", queue |-> queue, done |-> << >>,
                    outputs |-> << >>, globals |-> {}]

\* lib.rs line 959, once per worker: the next probe of the process runs
ApplyNextProbe ==
    /\ DOMAIN fn_in = {"fn", "queue", "done", "outputs", "globals"}
    /\ fn_in.queue # << >>
    /\ LET probe == Head(fn_in.queue)
           ran == RunProbeAfter(probe.plugin, probe.script, fn_in.globals)
       IN  /\ fn_in' = [fn_in EXCEPT !.queue = Tail(@),
                                     !.done = Append(@, probe),
                                     !.outputs = Append(@, ran.output),
                                     !.globals = ran.globals]
           /\ fn_out' = Some(ran.output)
    /\ UNCHANGED batchVars

StatelessSpec == StatelessInit /\ [][ApplyNextProbe]_vars

ProbesRan ==
    /\ DOMAIN fn_in = {"fn", "queue", "done", "outputs", "globals"}
    /\ fn_in.done # << >>

(***************************************************************************)
(* C23.  Probes are stateless across calls: no probe sees a global that an *)
(* earlier probe of the same or another plugin defined, so every output is *)
(* the output of that probe run first in the process, and two runs of the  *)
(* same probe give the same output whatever ran in between.                *)
(***************************************************************************)
C23_Stateless ==
    ProbesRan =>
        /\ \A i \in DOMAIN fn_in.done :
               fn_in.outputs[i]
                   = RunProbe(fn_in.done[i].plugin,
                              fn_in.done[i].script.unseen).output
        /\ \A i, j \in DOMAIN fn_in.done :
               fn_in.done[i] = fn_in.done[j] =>
                   fn_in.outputs[i] = fn_in.outputs[j]

\* a script that leaves a global, then twice the script of another plugin
\* that would report it: both runs report the plan
C23_Witness ==
    /\ ProbesRan
    /\ Len(fn_in.done) = 3
    /\ fn_in.done[1].script.writes = {"token"}
    /\ fn_in.done[2].script.reads = "token"
    /\ fn_in.done[2].plugin # fn_in.done[1].plugin
    /\ fn_in.done[3] = fn_in.done[2]
    /\ fn_in.outputs[3] = fn_in.outputs[2]
    /\ fn_in.outputs[3].lines = << TextLine("Plan", "pro", None, None) >>

(***************************************************************************)
(* The manifest loader (plugin_engine/manifest.rs).  A plugin directory is *)
(* drawn with what the file system gives for it: whether it is a           *)
(* directory, the text of plugin.json if there is one, what the entry path *)
(* resolves to, and the contents of the entry script and the icon if they  *)
(* can be read.  Strings the loader trims or tests are piece sequences.    *)
(***************************************************************************)
MaxDirs == 3
MaxLinks == 3

ManifestLine(line_type, label, scope, primary_order) ==
    [line_type |-> line_type, label |-> label, scope |-> scope,
     primary_order |-> primary_order]

PluginLink(label, url) == [label |-> label, url |-> url]

\* what serde_json::from_str gives for the text of plugin.json
PluginManifest(id, entry, lines, links) ==
    [ok |-> TRUE, id |-> id, entry |-> entry, lines |-> lines, links |-> links]
Unparsable == [ok |-> FALSE]

LoadOk(plugin) == [ok |-> TRUE, plugin |-> plugin]
LoadErr(message) == [ok |-> FALSE, err |-> message]

\* str::cmp on the ids in use: their order byte by byte
IdOrder == << "antigravity", "codex", "mock" >>
IdLess(a, b) ==
    \E i, j \in DOMAIN IdOrder : IdOrder[i] = a /\ IdOrder[j] = b /\ i < j

\* links kept as they stand in the manifest
SanitizePluginLinks_Untrimmed(plugin_id, links) ==
    SelectSeq(links, LAMBDA link :
        /\ Trim(link.label) # << >>
        /\ Trim(link.url) # << >>
        /\ Head(Trim(link.url)) \in {"https://", "http://"})

\* sanitize_plugin_links (lines 123-147)
RECURSIVE SanitizePluginLinks(_, _)
SanitizePluginLinks(plugin_id, links) ==
    IF links = << >> THEN << >>
    ELSE LET label == Trim(Head(links).label)
             url == Trim(Head(links).url)
             rest == SanitizePluginLinks(plugin_id, Tail(links))
         IN  IF label = << >> \/ url = << >> THEN rest
             ELSE IF ~(Head(url) = "https://" \/ Head(url) = "http://")
                  THEN rest
                  ELSE << PluginLink(label, url) >> \o rest

\* base64::STANDARD.encode on the icon files in use
Base64(bytes) == CASE bytes = "<svg/>" -> "PHN2Zy8+"
                   [] bytes = "" -> ""

\* load_single_plugin (lines 72-121); `at` names the directory
LoadSinglePlugin(at, dir) ==
    IF ~IsSome(dir.manifest) THEN LoadErr("io")
    ELSE IF ~Unwrap(dir.manifest).ok THEN LoadErr("json")
    ELSE LET parsed == Unwrap(dir.manifest)
             manifest == [id |-> parsed.id, entry |-> parsed.entry,
                          lines |-> parsed.lines,
                          links |-> SanitizePluginLinks(parsed.id,
                                                        parsed.links)]
         IN  IF Trim(manifest.entry) = << >>
             THEN LoadErr("plugin entry field cannot be empty")
             ELSE IF Head(manifest.entry) = "/"
             THEN LoadErr("plugin entry must be a relative path")
             ELSE IF dir.resolves = "missing" THEN LoadErr("io")
             ELSE IF dir.resolves = "outside"
             THEN LoadErr("plugin entry must remain within plugin directory")
             ELSE IF dir.resolves # "file"
             THEN LoadErr("plugin entry must be a file")
             ELSE IF ~IsSome(dir.script) THEN LoadErr("io")
             ELSE IF ~IsSome(dir.icon) THEN LoadErr("io")
             ELSE LoadOk([manifest |-> manifest, plugin_dir |-> at,
                          entry_script |-> Unwrap(dir.script),
                          icon_data_url |-> "data:image/svg+xml;base64,"
                                                \o Base64(Unwrap(dir.icon))])

\* the plugins in the order they were pushed
SortById_AsListed(plugins) == plugins

\* line 68: slice::sort_by on the manifest id, a stable sort
RECURSIVE SortById(_)
SortById(plugins) ==
    IF plugins = << >> THEN << >>
    ELSE LET last == plugins[Len(plugins)]
             sorted == SortById(SubSeq(plugins, 1, Len(plugins) - 1))
             k == Cardinality({ i \in DOMAIN sorted :
                                  ~IdLess(last.manifest.id,
                                          sorted[i].manifest.id) })
         IN  SubSeq(sorted, 1, k) \o << last >>
                 \o SubSeq(sorted, k + 1, Len(sorted))

\* lines 54-66: the loop over the directory's entries
RECURSIVE PushLoaded(_, _)
PushLoaded(entries, at) ==
    IF at > Len(entries) THEN << >>
    ELSE LET dir == entries[at]
             rest == PushLoaded(entries, at + 1)
         IN  IF ~dir.is_dir THEN rest
             ELSE IF ~IsSome(dir.manifest) THEN rest
             ELSE IF LoadSinglePlugin(at, dir).ok
                  THEN << LoadSinglePlugin(at, dir).plugin >> \o rest
                  ELSE rest

\* load_plugins_from_dir (lines 47-70); the listing is None when read_dir
\* fails
LoadPluginsFromDir(listing) ==
    IF ~IsSome(listing) THEN << >>
    ELSE SortById(PushLoaded(Unwrap(listing), 1))

PluginDir(is_dir, manifest, resolves, script, icon) ==
    [is_dir |-> is_dir, manifest |-> manifest, resolves |-> resolves,
     script |-> script, icon |-> icon]

UsageLine == ManifestLine("progress", "Usage", "overview", Some(1))
GoodLinks == << PluginLink(<< "Status" >>, << "https://", "a" >>) >>
MixedLinks ==
    << PluginLink(<< " " >>, << "https://", "b" >>),
       PluginLink(<< "Docs" >>, << "ftp://", "c" >>) >>

SoundDir(id, links) ==
    PluginDir(TRUE,
              Some(PluginManifest(id, << "plugin.js" >>, << UsageLine >>,
                                  links)),
              "file", Some("probe"), Some("<svg/>"))

WithEntry(entry, resolves) ==
    PluginDir(TRUE,
              Some(PluginManifest("codex", entry, << UsageLine >>,
                                  GoodLinks)),
              resolves, Some("probe"), Some("<svg/>"))

PluginDirs ==
    { SoundDir(id, GoodLinks) : id \in {"antigravity", "codex", "mock"} }
    \cup
    { SoundDir("mock", MixedLinks),
      \* a plain file in the plugins directory
      [SoundDir("codex", GoodLinks) EXCEPT !.is_dir = FALSE],
      [SoundDir("codex", GoodLinks) EXCEPT !.manifest = None],
      [SoundDir("codex", GoodLinks) EXCEPT !.manifest = Some(Unparsable)],
      WithEntry(<< >>, "dir"),
      WithEntry(<< " " >>, "missing"),
      WithEntry(<< "/", "plugin.js" >>, "file"),
      WithEntry(<< "..", "/", "plugin.js" >>, "outside"),
      WithEntry(<< "lib" >>, "dir"),
      WithEntry(<< "gone.js" >>, "missing"),
      [SoundDir("codex", GoodLinks) EXCEPT !.script = None],
      [SoundDir("codex", GoodLinks) EXCEPT !.icon = None] }

ManifestInit ==
    /\ Idle
    /\ \E listing \in {None} \cup
                      { Some(dirs) : dirs \in SeqsUpTo(PluginDirs, MaxDirs) } :
           fn_in = [fn |-> "load_plugins_from_dir", listing |-> listing]

ApplyLoadPluginsFromDir ==
    /\ DOMAIN fn_in = {"fn", "listing"}
    /\ fn_in.fn = "load_plugins_from_dir"
    /\ fn_out = None
    /\ fn_out' = Some(LoadPluginsFromDir(fn_in.listing))
    /\ UNCHANGED << batchVars, fn_in >>

ManifestSpec == ManifestInit /\ [][ApplyLoadPluginsFromDir]_vars

LoadedFromDir ==
    /\ DOMAIN fn_in = {"fn", "listing"}
    /\ fn_in.fn = "load_plugins_from_dir"
    /\ IsSome(fn_in.listing)
    /\ IsSome(fn_out)

Listed == Unwrap(fn_in.listing)
LoadedPlugins == Unwrap(fn_out)
LoadedDirs == { LoadedPlugins[k].plugin_dir : k \in DOMAIN LoadedPlugins }

\* the defects the loader excludes a directory for
NoManifest(dir) == ~dir.is_dir \/ ~IsSome(dir.manifest)
BadManifest(dir) == IsSome(dir.manifest) /\ ~Unwrap(dir.manifest).ok
Parsed(dir) == IsSome(dir.manifest) /\ Unwrap(dir.manifest).ok
BadEntryPath(dir) ==
    /\ Parsed(dir)
    /\ \/ Trim(Unwrap(dir.manifest).entry) = << >>
       \/ Head(Unwrap(dir.manifest).entry) = "/"
       \/ dir.resolves \in {"outside", "dir", "missing"}
Unread(dir) == ~IsSome(dir.icon) \/ ~IsSome(dir.script)
Defective(dir) ==
    NoManifest(dir) \/ BadManifest(dir) \/ BadEntryPath(dir) \/ Unread(dir)

(***************************************************************************)
(* C24.  Loading isolates failures per directory: a directory with no      *)
(* manifest, an unparsable manifest, an empty or absolute entry, an entry  *)
(* resolving outside the directory or to a non-file, or an unreadable icon *)
(* is left out; every directory without a defect is loaded once, with its  *)
(* manifest id; and the list is ascending in the plugin id.                *)
(***************************************************************************)
C24_LoadIsolatesFailures ==
    LoadedFromDir =>
        /\ \A at \in DOMAIN Listed :
               IF Defective(Listed[at]) THEN at \notin LoadedDirs
               ELSE \E k \in DOMAIN LoadedPlugins :
                        /\ LoadedPlugins[k].plugin_dir = at
                        /\ LoadedPlugins[k].manifest.id
                               = Unwrap(Listed[at].manifest).id
        /\ Cardinality(LoadedDirs) = Len(LoadedPlugins)
        /\ LoadedDirs \subseteq DOMAIN Listed
        /\ \A j, k \in DOMAIN LoadedPlugins :
               j < k => ~IdLess(LoadedPlugins[k].manifest.id,
                                LoadedPlugins[j].manifest.id)

\* a directory whose entry leaves it, listed between two sound ones whose
\* ids descend: the two are loaded, in ascending order
C24_Witness ==
    /\ LoadedFromDir
    /\ Len(Listed) = 3
    /\ ~Defective(Listed[1])
    /\ Listed[2].resolves = "outside"
    /\ ~Defective(Listed[3])
    /\ IdLess(Unwrap(Listed[3].manifest).id, Unwrap(Listed[1].manifest).id)
    /\ Len(LoadedPlugins) = 2
    /\ LoadedPlugins[1].plugin_dir = 3
    /\ LoadedPlugins[2].plugin_dir = 1


(***************************************************************************)
(* sanitize_plugin_links on its own, as load_single_plugin applies it to   *)
(* the links of a manifest that is otherwise sound.                        *)
(***************************************************************************)
LinkLabels == { << "Status" >>, << " ", "My", " ", "Docs", " " >>, << " " >> }
LinkUrls ==
    { << "https://", "a" >>, << " ", "http://", "b", " " >>,
      << "ftp://", "c" >>, << >> }
LinkChoices ==
    { PluginLink(label, url) : label \in LinkLabels, url \in LinkUrls }

LinksInit ==
    /\ Idle
    /\ \E links \in SeqsUpTo(LinkChoices, MaxLinks) :
           fn_in = [fn |-> "load_single_plugin",
                    dir |-> SoundDir("codex", links)]

ApplyLoadSinglePlugin ==
    /\ DOMAIN fn_in = {"fn", "dir"}
    /\ fn_in.fn = "load_single_plugin"
    /\ fn_out = None
    /\ fn_out' = Some(LoadSinglePlugin(1, fn_in.dir))
    /\ UNCHANGED << batchVars, fn_in >>

LinksSanitizedSpec == LinksInit /\ [][ApplyLoadSinglePlugin]_vars

LoadedSingle ==
    /\ DOMAIN fn_in = {"fn", "dir"}
    /\ fn_in.fn = "load_single_plugin"
    /\ IsSome(fn_out)

GivenLinks == Unwrap(fn_in.dir.manifest).links
StoredLinks == Unwrap(fn_out).plugin.manifest.links

\* read off the given link: both parts have text and the url starts with the
\* http or https scheme
KeepsLink(link) ==
    /\ \E i \in DOMAIN link.label : link.label[i] # " "
    /\ \E i \in DOMAIN link.url : link.url[i] # " "
    /\ \E i \in DOMAIN link.url :
           /\ link.url[i] \in {"http://", "https://"}
           /\ \A j \in 1..(i - 1) : link.url[j] = " "
KeptAt == { i \in DOMAIN GivenLinks : KeepsLink(GivenLinks[i]) }
NoOuterSpace(s) == s # << >> /\ Head(s) # " " /\ s[Len(s)] # " "

(***************************************************************************)
(* C25.  The stored links are, in the order given, exactly the links whose *)
(* label and url have text after trimming and whose url has the http or    *)
(* https scheme, each stored trimmed; a dropped link does not reject the   *)
(* plugin; sanitizing the stored links again returns them unchanged.       *)
(***************************************************************************)
C25_LinkSanitization ==
    LoadedSingle =>
        /\ Unwrap(fn_out).ok
        /\ Len(StoredLinks) = Cardinality(KeptAt)
        /\ \A k \in DOMAIN StoredLinks :
               \E i \in KeptAt :
                   /\ Cardinality({ j \in KeptAt : j <= i }) = k
                   /\ StoredLinks[k].label = Trim(GivenLinks[i].label)
                   /\ StoredLinks[k].url = Trim(GivenLinks[i].url)
                   /\ NoOuterSpace(StoredLinks[k].label)
                   /\ NoOuterSpace(StoredLinks[k].url)
        /\ SanitizePluginLinks("codex", StoredLinks) = StoredLinks

\* a padded https link, a link with a blank label and an ftp link: the
\* plugin is loaded with the first link alone, trimmed
C25_Witness ==
    /\ LoadedSingle
    /\ Len(GivenLinks) = 3
    /\ GivenLinks[1] = PluginLink(<< " ", "My", " ", "Docs", " " >>,
                                  << " ", "http://", "b", " " >>)
    /\ GivenLinks[2].label = << " " >>
    /\ GivenLinks[2].url = << "https://", "a" >>
    /\ GivenLinks[3].url = << "ftp://", "c" >>
    /\ Unwrap(fn_out).ok
    /\ StoredLinks = << PluginLink(<< "My", " ", "Docs" >>,
                                   << "http://", "b" >>) >>


(***************************************************************************)
(* list_plugins (lib.rs 1103-1152): the primary candidates of a plugin.    *)
(***************************************************************************)
MaxManifestLines == 3

\* the candidates in manifest order
SortByKey_AsListed(lines) == lines

\* line 1121: slice::sort_by_key on the unwrapped order, a stable sort
RECURSIVE SortByKey(_)
SortByKey(lines) ==
    IF lines = << >> THEN << >>
    ELSE LET last == lines[Len(lines)]
             sorted == SortByKey(SubSeq(lines, 1, Len(lines) - 1))
             k == Cardinality({ i \in DOMAIN sorted :
                                  Unwrap(sorted[i].primary_order)
                                      <= Unwrap(last.primary_order) })
         IN  SubSeq(sorted, 1, k) \o << last >>
                 \o SubSeq(sorted, k + 1, Len(sorted))

\* lines 1115-1123
PrimaryCandidates(manifest) ==
    LET candidates ==
            SortByKey(SelectSeq(manifest.lines, LAMBDA line :
                line.line_type = "progress" /\ IsSome(line.primary_order)))
    IN  [i \in DOMAIN candidates |-> candidates[i].label]

\* lines 1111-1150: the entry of one plugin
PluginMeta(plugin) ==
    [id |-> plugin.manifest.id,
     icon_url |-> plugin.icon_data_url,
     lines |-> [i \in DOMAIN plugin.manifest.lines |->
                   [line_type |-> plugin.manifest.lines[i].line_type,
                    label |-> plugin.manifest.lines[i].label,
                    scope |-> plugin.manifest.lines[i].scope]],
     links |-> plugin.manifest.links,
     primary_candidates |-> PrimaryCandidates(plugin.manifest)]

ListPlugins(plugins) == [i \in DOMAIN plugins |-> PluginMeta(plugins[i])]

ManifestLineChoices ==
    { ManifestLine(type, label, "overview", order) :
        type \in {"progress", "text"},
        label \in {"A", "B", "C"},
        order \in {None, Some(1), Some(2), Some(3)} }

\* manifests whose lines carry different labels
LineLists ==
    { lines \in SeqsUpTo(ManifestLineChoices, MaxManifestLines) :
        \A i, j \in DOMAIN lines : lines[i].label = lines[j].label => i = j }

CandidatesInit ==
    /\ Idle
    /\ \E lines \in LineLists :
           fn_in = [fn |-> "list_plugins",
                    plugins |-> << LoadSinglePlugin(1,
                        [SoundDir("codex", GoodLinks) EXCEPT
                            !.manifest = Some(PluginManifest("codex",
                                << "plugin.js" >>, lines, GoodLinks))]).plugin >>]

ApplyListPlugins ==
    /\ DOMAIN fn_in = {"fn", "plugins"}
    /\ fn_in.fn = "list_plugins"
    /\ fn_out = None
    /\ fn_out' = Some(ListPlugins(fn_in.plugins))
    /\ UNCHANGED << batchVars, fn_in >>

CandidatesSpec == CandidatesInit /\ [][ApplyListPlugins]_vars

ListedPlugins ==
    /\ DOMAIN fn_in = {"fn", "plugins"}
    /\ fn_in.fn = "list_plugins"
    /\ IsSome(fn_out)

DeclaredLines == fn_in.plugins[1].manifest.lines
Candidates == Unwrap(fn_out)[1].primary_candidates
IsCandidate(line) == line.line_type = "progress" /\ line.primary_order # None
CandidateAt == { i \in DOMAIN DeclaredLines : IsCandidate(DeclaredLines[i]) }
\* the declared line a candidate label belongs to (labels are distinct)
LineOf(label) ==
    CHOOSE i \in DOMAIN DeclaredLines : DeclaredLines[i].label = label
OrderOf(label) == DeclaredLines[LineOf(label)].primary_order[1]

(***************************************************************************)
(* C26.  The primary candidates are the labels of exactly the manifest     *)
(* lines of type progress that carry a primary order, ascending in that    *)
(* order, lines of equal order in manifest order; a line without an order  *)
(* and a line of another type with an order are not among them.            *)
(***************************************************************************)
C26_PrimaryCandidates ==
    ListedPlugins =>
        /\ Len(Candidates) = Cardinality(CandidateAt)
        /\ { Candidates[k] : k \in DOMAIN Candidates }
               = { DeclaredLines[i].label : i \in CandidateAt }
        /\ \A j, k \in DOMAIN Candidates :
               j < k =>
                   \/ OrderOf(Candidates[j]) < OrderOf(Candidates[k])
                   \/ /\ OrderOf(Candidates[j]) = OrderOf(Candidates[k])
                      /\ LineOf(Candidates[j]) < LineOf(Candidates[k])

\* orders 3, 1 and 1 again on progress lines: the two lines of order 1 come
\* first, in manifest order
C26_Witness ==
    /\ ListedPlugins
    /\ Len(DeclaredLines) = 3
    /\ \A i \in 1..3 : DeclaredLines[i].line_type = "progress"
    /\ DeclaredLines[1].primary_order = Some(3)
    /\ DeclaredLines[2].primary_order = Some(1)
    /\ DeclaredLines[3].primary_order = Some(1)
    /\ Candidates = << DeclaredLines[2].label, DeclaredLines[3].label,
                       DeclaredLines[1].label >>


Dispatched(b) == { w \in Workers(b) : wpc[b][w] # "unspawned" }
ResolvedIds(b) == { PluginOf(b, w).id : w \in Workers(b) }

(***************************************************************************)
(* C27.  In every batch, with or without an explicit id list, no id occurs *)
(* twice in the resolved plugin list, the counter is created with the      *)
(* length of that list, and once all workers are dispatched their number   *)
(* is the number of distinct resolved ids.                                 *)
(***************************************************************************)
C27_DistinctResolvedIds ==
    \A b \in Batches :
        Started(b) =>
            /\ \A v, w \in Workers(b) :
                   PluginOf(b, v).id = PluginOf(b, w).id => v = w
            /\ (bpc[b] = "spawn" /\ cursor[b] = 1)
                   => remaining[b] = Some(N(b))
            /\ bpc[b] \in {"return", "returned"}
                   => Cardinality(Dispatched(b)) = Cardinality(ResolvedIds(b))


HasSelection(b, id) ==
    IsSome(req[b].account_selections) /\ id \in DOMAIN Selections(b)
HasOverlayOutcome(b, id) ==
    id \in DOMAIN prepared_overlays[b] \cup DOMAIN overlay_errors[b]
ResolutionOf(b) ==
    << config[b], auth_files[b], pending[b], trace[b], prepared_overlays[b],
       overlay_errors[b] >>

(***************************************************************************)
(* C30.  Within a batch the overlay resolution of every plugin is finished *)
(* before the first worker is dispatched: once a worker of the batch has   *)
(* been handed to the pool, the thread is in or past the dispatch loop, no *)
(* download waits to be stored, every plugin with a selection has its      *)
(* overlay or its error, and no later step of the batch touches what the   *)
(* resolution recorded.                                                    *)
(***************************************************************************)
C30_ResolvedBeforeDispatch ==
    /\ [](\A b \in Batches :
              Dispatched(b) # {} =>
                  /\ bpc[b] \in {"spawn", "return", "returned"}
                  /\ pending[b] = None
                  /\ \A w \in Workers(b) :
                         HasSelection(b, PluginOf(b, w).id)
                             => HasOverlayOutcome(b, PluginOf(b, w).id))
    /\ [][\A b \in Batches :
              (Dispatched(b) # {} /\ bpc'[b] # "idle")
                  => ResolutionOf(b)' = ResolutionOf(b)]_vars

\* two plugins with a selection, one resolved by a download that was stored
\* and one refused; the first worker runs, the second is not dispatched yet
C30_Witness ==
    \E b \in Batches :
        /\ N(b) >= 2
        /\ Dispatched(b) = {1}
        /\ bpc[b] = "spawn"
        /\ DOMAIN prepared_overlays[b] # {}
        /\ DOMAIN overlay_errors[b] # {}
        /\ \A w \in Workers(b) : HasSelection(b, PluginOf(b, w).id)
        /\ \E k \in DOMAIN cache : TRUE


(***************************************************************************)
(* Two batches at once: the command is invoked again while the workers of  *)
(* the batch before are still running (nothing in start_probe_batch waits  *)
(* for an earlier batch).  Both probe the codex plugin with the same       *)
(* account selection, so both use one cache key.                           *)
(***************************************************************************)
ConcurrentInit ==
    /\ loaded = << Plugin("codex", "codex") >>
    /\ budget = MaxStarts
    /\ slots = Batches
    /\ BatchInit
    /\ fn_in = << >>
    /\ fn_out = None

ConcurrentNext ==
    \/ \E b \in Batches :
           StartBatchWith(b, None, None, Some([codex |-> << "a" >>]))
    \/ \E b \in Batches : LoadConfig(b)
    \/ \E b \in Batches : ListAuthFiles(b)
    \/ \E b \in Batches : PrepareLookup(b)
    \/ \E b \in Batches : PrepareStore(b)
    \/ \E b \in Batches : CreateCounter(b)
    \/ \E b \in Batches : SpawnWorker(b)
    \/ \E b \in Batches : ReturnStarted(b)
    \/ \E b \in Batches : \E w \in Workers(b) : WorkerRun(b, w)
    \/ \E b \in Batches : \E w \in Workers(b) : WorkerPersist(b, w)
    \/ \E b \in Batches : \E w \in Workers(b) : WorkerEmit(b, w)
    \/ \E b \in Batches : \E w \in Workers(b) : WorkerDecrement(b, w)
    \/ \E b \in Batches : \E w \in Workers(b) : WorkerComplete(b, w)

ConcurrentSpec == ConcurrentInit /\ [][ConcurrentNext]_vars


CacheWrittenAt(k) ==
    k \in DOMAIN cache' /\ (k \notin DOMAIN cache \/ cache'[k] # cache[k])

\* the resolve of batch b stores its download under k
StoresFor(b, k) ==
    /\ StoreStep(b)
    /\ IsSome(pending[b])
    /\ Unwrap(pending[b]).cache_key = k
    /\ cache'[k] = Unwrap(pending[b]).transformed

\* the overlay of worker w and the key it was prepared under
OverlayOf(b, w) == overlays[b][PluginOf(b, w).id]
KeyOf(b, w) == Unwrap(prepared_overlays[b][PluginOf(b, w).id].cache_key)
\* what stands in the overlay at the first credential path it holds
LatestOf(b, w) ==
    LET target_paths == CredentialTargetPaths(PluginOf(b, w).id)
        first == CHOOSE i \in DOMAIN target_paths :
                     /\ target_paths[i] \in DOMAIN OverlayOf(b, w)
                     /\ \A j \in 1..(i - 1) :
                            target_paths[j] \notin DOMAIN OverlayOf(b, w)
    IN  OverlayOf(b, w)[target_paths[first]]

\* the write-back of worker w of batch b writes under k
WritesBackFor(b, w, k) ==
    /\ PersistStep(b, w)
    /\ KeyOf(b, w) = k
    /\ cache'[k] = LatestOf(b, w)

(***************************************************************************)
(* C28.  With batches running at once the cache is last-write-wins per     *)
(* key: a step changes the value under a key only as the store of a        *)
(* resolve or the write-back of a worker made for that key, and then the   *)
(* new value is the whole value that step wrote; no key is ever removed;   *)
(* and a write-back replaces whatever the key held, fresher or not, by the *)
(* content of its own overlay.                                             *)
(***************************************************************************)
C28_LastWriteWins ==
    [][/\ DOMAIN cache \subseteq DOMAIN cache'
       /\ \A k \in DOMAIN cache' :
              CacheWrittenAt(k) =>
                  \E b \in Batches :
                      \/ StoresFor(b, k)
                      \/ \E w \in Workers(b) : WritesBackFor(b, w, k)
       /\ \A b \in Batches : \A w \in 1..MaxRequested :
              PersistStep(b, w) =>
                  /\ KeyOf(b, w) \in DOMAIN cache'
                  /\ cache'[KeyOf(b, w)] = LatestOf(b, w)
                  /\ \A k \in DOMAIN cache :
                         k # KeyOf(b, w) => cache'[k] = cache[k]]_vars

\* batch b stored its download and its script refreshed the credentials,
\* which its write-back put in the cache; batch a, whose overlay was built
\* from the cache before that, wrote back afterwards: the cache holds the
\* content of a's overlay again, not the refreshed one
C28_Witness ==
    \E a, b \in Batches :
        /\ a # b
        /\ Workers(a) = {1} /\ Workers(b) = {1}
        /\ wpc[a][1] \in {"emit", "decrement", "complete", "done"}
        /\ wpc[b][1] \in {"emit", "decrement", "complete", "done"}
        /\ trace[a] = << "cache_get" >>
        /\ "codex" \in DOMAIN prepared_overlays[a]
        /\ "codex" \in DOMAIN prepared_overlays[b]
        /\ KeyOf(a, 1) = KeyOf(b, 1)
        /\ LatestOf(b, 1) = Refreshed
        /\ LatestOf(a, 1) # Refreshed
        /\ cache[KeyOf(a, 1)] = LatestOf(a, 1)


(***************************************************************************)
(* The same two batches with every Mutex::lock as a step of its own: a     *)
(* thread takes a lock when no guard of it is alive, and gives it up where *)
(* the guard goes out of scope (lib.rs 611-688 and 746-771).  The overlay  *)
(* mutex of a plugin is made at line 700, after the last cache access of   *)
(* its resolve.                                                            *)
(***************************************************************************)
CacheMutex == [name |-> "cache", b |-> 0, id |-> ""]
OverlayMutex(b, id) == [name |-> "overlay", b |-> b, id |-> id]
StartThread(b) == [kind |-> "start", b |-> b, w |-> 0]
WorkerThread(b, w) == [kind |-> "worker", b |-> b, w |-> w]

Guard(lock, thread) == [lock |-> lock, by |-> thread]
Holds(thread, lock) == Guard(lock, thread) \in locks
Free(lock) == \A g \in locks : g.lock # lock

\* Mutex::lock: the call returns once no other guard is alive
Acquire(thread, lock) == Free(lock) /\ locks' = locks \cup {Guard(lock, thread)}
\* the guard is dropped
Release(thread, lock) == locks' = locks \ {Guard(lock, thread)}

\* lines 596-611: the early returns, then cache.lock()
LockCacheForLookup(b) ==
    /\ bpc[b] = "prepare"
    /\ LET plugin_id == selected_plugins[b][cursor[b]].id
       IN  IF plugin_id \notin DOMAIN Selections(b)
           THEN /\ NextPlugin(b)
                /\ UNCHANGED << overlay_errors, trace, locks >>
           ELSE IF \/ ~SupportsCredentialOverlay(plugin_id)
                   \/ Trim(Selections(b)[plugin_id]) = << >>
           THEN /\ overlay_errors' = [overlay_errors EXCEPT ![b] =
                       MapInsert(@, plugin_id, MsgAccount)]
                /\ NextPlugin(b)
                /\ trace' = [trace EXCEPT ![b] = << >>]
                /\ UNCHANGED locks
           ELSE /\ Acquire(StartThread(b), CacheMutex)
                /\ bpc' = [bpc EXCEPT ![b] = "lookup"]
                /\ trace' = [trace EXCEPT ![b] = << >>]
                /\ UNCHANGED << cursor, overlay_errors >>
    /\ UNCHANGED << loaded, slots, cache, now, budget, req, batch_id,
                    selected_plugins, response, config, auth_files, pending,
                    prepared_overlays, overlays, remaining, wpc, wresult,
                    events, observed, sandbox, fn_in, fn_out >>

\* lines 612-629: the lookup under the guard, which ends with the block;
\* lines 690-703 on a hit
LookupUnderLock(b) ==
    /\ bpc[b] = "lookup"
    /\ Release(StartThread(b), CacheMutex)
    /\ LET plugin_id == selected_plugins[b][cursor[b]].id
           cache_key == CacheKey(plugin_id, Trim(Selections(b)[plugin_id]),
                                 Unwrap(config[b]))
           cached == MapGet(cache, cache_key)
       IN  /\ trace' = [trace EXCEPT ![b] = << "cache_get" >>]
           /\ IF IsSome(cached)
                 /\ ShouldUseCachedOverlay(plugin_id, Unwrap(cached), now)
              THEN /\ RecordPrepared(b, plugin_id, cache_key, Unwrap(cached))
                   /\ NextPlugin(b)
              ELSE /\ bpc' = [bpc EXCEPT ![b] = "fetch"]
                   /\ UNCHANGED << cursor, prepared_overlays, overlay_errors,
                                   overlays >>
    /\ UNCHANGED << loaded, slots, cache, now, budget, req, batch_id,
                    selected_plugins, response, config, auth_files, pending,
                    remaining, wpc, wresult, events, observed, sandbox, fn_in,
                    fn_out >>

\* lines 631-680: the catalog entry, the download and the transform
FetchAndTransform(b) ==
    /\ bpc[b] = "fetch"
    /\ LET plugin_id == selected_plugins[b][cursor[b]].id
           selected == Trim(Selections(b)[plugin_id])
           cache_key == CacheKey(plugin_id, selected, Unwrap(config[b]))
           auth_file == FindAuthFile(auth_files[b], selected)
           refused == /\ RecordFailure(b, plugin_id)
                      /\ NextPlugin(b)
                      /\ UNCHANGED pending
       IN  IF auth_file = None \/ ~AuthFileUsable(plugin_id, Unwrap(auth_file))
           THEN /\ refused
                /\ trace' = [trace EXCEPT ![b] = Append(@, "find")]
           ELSE /\ trace' = [trace EXCEPT ![b] =
                                @ \o << "find", "download" >>]
                /\ \/ refused
                   \/ \E raw \in RawPayloads :
                         LET result ==
                                 TransformAuthPayloadForPlugin(plugin_id, raw,
                                                               now)
                         IN  /\ ~result.fault
                             /\ IF result.ok
                                THEN /\ pending' = [pending EXCEPT ![b] =
                                            Some([plugin_id |-> plugin_id,
                                                  cache_key |-> cache_key,
                                                  transformed |-> result.val])]
                                     /\ bpc' = [bpc EXCEPT ![b] = "store"]
                                     /\ UNCHANGED << cursor, prepared_overlays,
                                                     overlay_errors, overlays >>
                                ELSE refused
    /\ UNCHANGED << loaded, slots, cache, now, budget, req, batch_id,
                    selected_plugins, response, config, auth_files, remaining,
                    wpc, wresult, events, observed, sandbox, fn_in, fn_out,
                    locks >>

\* line 682: cache.lock() for the store
LockCacheForStore(b) ==
    /\ bpc[b] = "store"
    /\ Acquire(StartThread(b), CacheMutex)
    /\ bpc' = [bpc EXCEPT ![b] = "storing"]
    /\ UNCHANGED << loaded, slots, cache, now, budget, req, batch_id,
                    selected_plugins, response, config, auth_files, cursor,
                    pending, prepared_overlays, overlay_errors, overlays,
                    remaining, wpc, wresult, events, observed, sandbox, trace,
                    fn_in, fn_out >>

\* lines 683-703: the insert under the guard, then the overlay is built
StoreUnderLock(b) ==
    /\ bpc[b] = "storing"
    /\ Release(StartThread(b), CacheMutex)
    /\ LET p == Unwrap(pending[b])
       IN  /\ cache' = MapInsert(cache, p.cache_key, p.transformed)
           /\ IF CredentialTargetPaths(p.plugin_id) = << >>
              THEN RecordFailure(b, p.plugin_id)
              ELSE RecordPrepared(b, p.plugin_id, p.cache_key, p.transformed)
    /\ pending' = [pending EXCEPT ![b] = None]
    /\ trace' = [trace EXCEPT ![b] = Append(@, "cache_insert")]
    /\ NextPlugin(b)
    /\ UNCHANGED << loaded, slots, now, budget, req, batch_id, selected_plugins,
                    response, config, auth_files, remaining, wpc, wresult,
                    events, observed, sandbox, fn_in, fn_out >>

\* lines 737-747: the early returns, then prepared.overlay.lock()
LockOverlayForPersist(b, w) ==
    /\ wpc[b][w] = "persist"
    /\ LET id == PluginOf(b, w).id
       IN  IF \/ prepared_overlays[b][id].cache_key = None
              \/ CredentialTargetPaths(id) = << >>
           THEN /\ wpc' = [wpc EXCEPT ![b][w] = "emit"]
                /\ UNCHANGED locks
           ELSE /\ Acquire(WorkerThread(b, w), OverlayMutex(b, id))
                /\ wpc' = [wpc EXCEPT ![b][w] = "reading"]
    /\ UNCHANGED << loaded, slots, cache, now, budget, bpc, req, batch_id,
                    selected_plugins, response, config, auth_files, cursor,
                    pending, prepared_overlays, overlay_errors, overlays,
                    remaining, wresult, events, observed, sandbox, trace,
                    fn_in, fn_out >>

\* the overlay guard kept past the block that reads the overlay
ReadOverlayUnderLock_Held(b, w) ==
    /\ wpc[b][w] = "reading"
    /\ wpc' = [wpc EXCEPT ![b][w] = "latest"]
    /\ UNCHANGED << loaded, slots, cache, now, budget, bpc, req, batch_id,
                    selected_plugins, response, config, auth_files, cursor,
                    pending, prepared_overlays, overlay_errors, overlays,
                    remaining, wresult, events, observed, sandbox, trace,
                    fn_in, fn_out, locks >>

\* lines 750-767: the read under the overlay guard, which ends with the block
ReadOverlayUnderLock(b, w) ==
    /\ wpc[b][w] = "reading"
    /\ Release(WorkerThread(b, w), OverlayMutex(b, PluginOf(b, w).id))
    /\ wpc' = [wpc EXCEPT ![b][w] =
                  IF FirstPresent(CredentialTargetPaths(PluginOf(b, w).id),
                                  overlays[b][PluginOf(b, w).id]) = None
                  THEN "emit" ELSE "latest"]
    /\ UNCHANGED << loaded, slots, cache, now, budget, bpc, req, batch_id,
                    selected_plugins, response, config, auth_files, cursor,
                    pending, prepared_overlays, overlay_errors, overlays,
                    remaining, wresult, events, observed, sandbox, trace,
                    fn_in, fn_out >>

\* line 769: cache.lock() for the write-back
LockCacheForPersist(b, w) ==
    /\ wpc[b][w] = "latest"
    /\ Acquire(WorkerThread(b, w), CacheMutex)
    /\ wpc' = [wpc EXCEPT ![b][w] = "writing"]
    /\ UNCHANGED << loaded, slots, cache, now, budget, bpc, req, batch_id,
                    selected_plugins, response, config, auth_files, cursor,
                    pending, prepared_overlays, overlay_errors, overlays,
                    remaining, wresult, events, observed, sandbox, trace,
                    fn_in, fn_out >>

\* lines 770-771: the insert under the guard
WriteBackUnderLock(b, w) ==
    /\ wpc[b][w] = "writing"
    /\ Release(WorkerThread(b, w), CacheMutex)
    /\ cache' = PersistOverlayBackToCache(PluginOf(b, w).id,
                    prepared_overlays[b][PluginOf(b, w).id],
                    overlays[b][PluginOf(b, w).id], cache)
    /\ wpc' = [wpc EXCEPT ![b][w] = "emit"]
    /\ UNCHANGED << loaded, slots, now, budget, bpc, req, batch_id,
                    selected_plugins, response, config, auth_files, cursor,
                    pending, prepared_overlays, overlay_errors, overlays,
                    remaining, wresult, events, observed, sandbox, trace,
                    fn_in, fn_out >>

LockNext ==
    \/ \E b \in Batches :
           StartBatchWith(b, None, None, Some([codex |-> << "a" >>]))
    \/ \E b \in Batches : LoadConfig(b)
    \/ \E b \in Batches : ListAuthFiles(b)
    \/ \E b \in Batches : LockCacheForLookup(b)
    \/ \E b \in Batches : LookupUnderLock(b)
    \/ \E b \in Batches : FetchAndTransform(b)
    \/ \E b \in Batches : LockCacheForStore(b)
    \/ \E b \in Batches : StoreUnderLock(b)
    \/ \E b \in Batches : CreateCounter(b)
    \/ \E b \in Batches : SpawnWorker(b)
    \/ \E b \in Batches : ReturnStarted(b)
    \/ \E b \in Batches : \E w \in Workers(b) : WorkerRun(b, w)
    \/ \E b \in Batches : \E w \in Workers(b) : LockOverlayForPersist(b, w)
    \/ \E b \in Batches : \E w \in Workers(b) : ReadOverlayUnderLock(b, w)
    \/ \E b \in Batches : \E w \in Workers(b) : LockCacheForPersist(b, w)
    \/ \E b \in Batches : \E w \in Workers(b) : WriteBackUnderLock(b, w)
    \/ \E b \in Batches : \E w \in Workers(b) : WorkerEmit(b, w)
    \/ \E b \in Batches : \E w \in Workers(b) : WorkerDecrement(b, w)
    \/ \E b \in Batches : \E w \in Workers(b) : WorkerComplete(b, w)

LockSpec == ConcurrentInit /\ [][LockNext]_vars

Threads ==
    { StartThread(b) : b \in Batches }
        \cup { WorkerThread(b, w) : b \in Batches, w \in 1..MaxRequested }
HoldsCache(thread) == Holds(thread, CacheMutex)
HoldsOverlay(thread) == \E g \in locks : g.by = thread /\ g.lock.name = "overlay"
\* every batch that was started has returned and its workers have ended
Quiescent ==
    \A b \in Batches :
        /\ bpc[b] \in {"idle", "returned"}
        /\ \A w \in Workers(b) : wpc[b][w] = "done"

(***************************************************************************)
(* C29.  No thread holds the cache lock and an overlay lock together; the  *)
(* thread that downloads and the worker whose probe is in the sandbox do   *)
(* not hold the cache lock; each lock has one holder at most; and no state *)
(* with work left is without a step: the batches and workers never block   *)
(* each other for good on these locks.                                     *)
(***************************************************************************)
C29_NoLockHeldTogether ==
    /\ \A thread \in Threads : ~(HoldsCache(thread) /\ HoldsOverlay(thread))
    /\ \A g, h \in locks : g.lock = h.lock => g = h
    /\ \A b \in Batches :
           /\ bpc[b] = "fetch" => ~HoldsCache(StartThread(b))
           /\ \A w \in Workers(b) :
                  wpc[b][w] = "run" =>
                      \A g \in locks : g.by # WorkerThread(b, w)
    /\ Quiescent \/ ENABLED LockNext

\* one batch waits for the cache lock to store its download while a worker
\* of the other batch holds it for its write-back
C29_Witness ==
    \E a, b \in Batches :
        /\ a # b
        /\ bpc[a] = "store"
        /\ wpc[b] # << >>
        /\ wpc[b][1] = "writing"
        /\ HoldsCache(WorkerThread(b, 1))
        /\ ~ENABLED LockCacheForStore(a)


(***************************************************************************)
(* Batches started with every kind of batch id argument: none, empty,      *)
(* blank, padded, plain and with inner whitespace; with no plugin list or  *)
(* an empty one, and without account selections.                           *)
(***************************************************************************)
BatchIdChoices ==
    { None, Some(<< >>), Some(<< " " >>), Some(<< " ", " " >>),
      Some(<< "b" >>), Some(<< " ", "b", " " >>),
      Some(<< " ", "a", " ", "b" >>) }

IdNext ==
    \/ \E b \in Batches : \E id \in BatchIdChoices, ids \in {None, Some(<< >>)} :
           StartBatchWith(b, id, ids, None)
    \/ \E b \in Batches : CompleteEmptyBatch(b)
    \/ \E b \in Batches : LoadConfig(b)
    \/ \E b \in Batches : CreateCounter(b)
    \/ \E b \in Batches : SpawnWorker(b)
    \/ \E b \in Batches : ReturnStarted(b)
    \/ \E b \in Batches : \E w \in Workers(b) : WorkerRun(b, w)
    \/ \E b \in Batches : \E w \in Workers(b) : WorkerEmit(b, w)
    \/ \E b \in Batches : \E w \in Workers(b) : WorkerDecrement(b, w)
    \/ \E b \in Batches : \E w \in Workers(b) : WorkerComplete(b, w)

IdSpec == ConcurrentInit /\ [][IdNext]_vars

\* read off the argument: its text without the whitespace around it
HasText(s) == \E i \in DOMAIN s : s[i] # " "
Core(s) ==
    LET first == CHOOSE i \in DOMAIN s :
                     s[i] # " " /\ \A j \in 1..(i - 1) : s[j] = " "
        last == CHOOSE i \in DOMAIN s :
                    s[i] # " " /\ \A j \in (i + 1)..Len(s) : s[j] = " "
    IN  [i \in 1..(last - first + 1) |-> s[first + i - 1]]
Supplied(b) == IsSome(req[b].batch_id) /\ HasText(Unwrap(req[b].batch_id))
Generated(id) ==
    \E n \in 0..(MaxStarts + 1) : id = << "uuid-" \o ToString(n) >>

(***************************************************************************)
(* C31.  The batch id is normalised once and used everywhere: a supplied   *)
(* id with text is that text without the whitespace around it, a missing   *)
(* or blank id is replaced by a generated one, and the id that start       *)
(* returns is the id of every result event and of the batch-complete event *)
(* of the batch.                                                           *)
(***************************************************************************)
C31_BatchIdEverywhere ==
    \A b \in Batches :
        Started(b) =>
            /\ IF Supplied(b) THEN batch_id[b] = Core(Unwrap(req[b].batch_id))
               ELSE Generated(batch_id[b])
            /\ IsSome(response[b]) => Unwrap(response[b]).batch_id = batch_id[b]
            /\ \A i \in DOMAIN events[b] : events[b][i].batch_id = batch_id[b]

\* a batch started with a padded id and one started with a blank id, both
\* returned and complete, each with a result event
C31_Witness ==
    \E a, b \in Batches :
        /\ req[a].batch_id = Some(<< " ", "a", " ", "b" >>)
        /\ req[b].batch_id = Some(<< " ", " " >>)
        /\ IsSome(response[a]) /\ IsSome(response[b])
        /\ Unwrap(response[a]).batch_id = << "a", " ", "b" >>
        /\ Generated(Unwrap(response[b]).batch_id)
        /\ ResultEvents(a) # {} /\ CompleteEvents(a) # {}
        /\ ResultEvents(b) # {} /\ CompleteEvents(b) # {}


(***************************************************************************)
(* C32.  No result event of a batch comes after its batch-complete event:  *)
(* every result event stands before it in emission order, nothing is       *)
(* emitted for the batch once it is there, and when the counter is at zero *)
(* every worker that has an output has emitted its result.                 *)
(***************************************************************************)
C32_ResultsBeforeComplete ==
    /\ [](\A b \in Batches :
              /\ \A i \in CompleteEvents(b) : \A j \in ResultEvents(b) : j < i
              /\ (Started(b) /\ N(b) >= 1 /\ remaining[b] = Some(0)) =>
                     \A w \in Workers(b) :
                         HasOutput(b, w) => ResultEventsOf(b, w) # {})
    /\ [][\A b \in Batches :
              (CompleteEvents(b) # {} /\ bpc'[b] # "idle")
                  => events'[b] = events[b]]_vars

\* three workers, two with an output and one that panicked: two result
\* events, then the batch-complete from the worker that was last to decrement
C32_Witness ==
    \E b \in Batches :
        /\ N(b) = 3
        /\ Cardinality(ResultEvents(b)) = 2
        /\ \E w \in Workers(b) : Faulted(b, w)
        /\ Len(events[b]) = 3
        /\ events[b][3].name = "probe:batch-complete"
        /\ events[b][3].w # 3


NoSelectionFor(b, id) ==
    req[b].account_selections = None \/ id \notin DOMAIN Selections(b)

(***************************************************************************)
(* C33.  For every plugin of a batch at most one of a prepared overlay and *)
(* an overlay error exists; a plugin with no entry in the selection map    *)
(* has neither, its probe runs in the sandbox, and its worker never writes *)
(* back to the cache, whatever the configuration and the catalog gave.     *)
(***************************************************************************)
C33_OverlayOrErrorNotBoth ==
    /\ [](\A b \in Batches :
              /\ DOMAIN prepared_overlays[b] \cap DOMAIN overlay_errors[b] = {}
              /\ \A w \in Workers(b) :
                     NoSelectionFor(b, PluginOf(b, w).id) =>
                         /\ ~HasOverlayOutcome(b, PluginOf(b, w).id)
                         /\ wpc[b][w] # "persist"
                         /\ IsSome(wresult[b][w]) => w \in sandbox[b])
    /\ [][\A b \in Batches : \A w \in 1..MaxRequested :
              (/\ w \in DOMAIN wpc[b]
               /\ w \in DOMAIN wpc'[b]
               /\ wpc[b][w] # wpc'[b][w]
               /\ bpc'[b] # "idle"
               /\ NoSelectionFor(b, PluginOf(b, w).id))
                  => cache' = cache]_vars

\* a batch of three with selections for two: one overlay prepared, one
\* refused, and the third plugin probed in the sandbox with neither
C33_Witness ==
    \E b \in Batches :
        /\ N(b) = 3
        /\ IsSome(req[b].account_selections)
        /\ DOMAIN prepared_overlays[b] # {}
        /\ DOMAIN overlay_errors[b] # {}
        /\ \E w \in Workers(b) :
               /\ NoSelectionFor(b, PluginOf(b, w).id)
               /\ w \in sandbox[b]
               /\ wpc[b][w] = "done"
        /\ \E w \in Workers(b) :
               /\ PluginOf(b, w).id \in DOMAIN prepared_overlays[b]
               /\ wpc[b][w] = "done"


\* the parts of a resolve that its cache key is made from
KeyParts(r) ==
    << r.plugin_id, Trim(r.selection), r.config.base_url, r.config.api_key >>

(***************************************************************************)
(* C34.  The cache key is injective: two resolves that differ in the       *)
(* plugin id, in the trimmed selection, in the base URL or in the secret   *)
(* never get the same key, also when a selection or a base URL contains    *)
(* the separator "::".                                                     *)
(***************************************************************************)
C34_KeyInjective ==
    KeysComputed =>
        (KeyParts(fn_in.old) # KeyParts(fn_in.new)
             => Unwrap(fn_out).old # Unwrap(fn_out).new)

(***************************************************************************)
(* The gemini normaliser followed by the gemini freshness check: what      *)
(* prepare_credential_overlay stores on a miss is what a later call reads  *)
(* back from the cache.                                                    *)
(***************************************************************************)
\* expiries around now, and expiries of the first months of 1970
UnitExpiries ==
    { At(d) : d \in FreshDeltas }
        \cup { << 0, 0, 1000 >>, << 0, 86, 400000 >>, << 0, 1700, 0 >>,
               << 0, 2000, 0 >>, EpochMsThreshold,
               BigAdd(EpochMsThreshold, BigOfInt(1)) }

\* the fields a gemini auth file can state its expiry in
UnitPayloads ==
    { Doc(JObj([access_token |-> Token("at"),
                expired |-> JStr(Lit(FALSE, "rfc3339", e))])) :
          e \in UnitExpiries }
    \cup { Doc(JObj([refresh_token |-> Token("rt"),
                     token |-> JObj([expiry |->
                                 JStr(Lit(FALSE, "rfc3339", e))])])) :
               e \in UnitExpiries }
    \cup { Doc(JObj([access_token |-> Token("at"),
                     expiry_date |-> JNum(e)])) : e \in UnitExpiries }
    \cup { Doc(JObj([access_token |-> Token("at"),
                     expiryDate |-> JStr(Lit(TRUE, "int", e))])) :
               e \in UnitExpiries }
    \cup { Doc(JObj([access_token |-> Token("at"),
                     expires_in |-> JStr(Lit(FALSE, "int", ttl_sec))])) :
               ttl_sec \in { BigOfInt(3600), BigOfInt(60), BigOfInt(61),
                             BigOfInt(-1), << -1, 302000, 0 >> } }
    \cup { Doc(JObj([access_token |-> Token("at")])) }

UnitInit ==
    /\ Idle
    /\ \E raw \in UnitPayloads : fn_in = [fn |-> "unit", raw |-> raw]

\* lines 669-684: the downloaded payload is normalised and stored
ApplyNormalizeGemini ==
    /\ DOMAIN fn_in = {"fn", "raw"}
    /\ fn_in.fn = "unit"
    /\ fn_out = None
    /\ fn_out' = Some([transformed |->
                           TransformAuthPayloadForPlugin("gemini", fn_in.raw,
                                                         now),
                       served |-> None])
    /\ UNCHANGED << fn_in, batchVars >>

\* lines 611-616: the stored payload is asked whether it is still fresh
ApplyCheckGemini ==
    /\ DOMAIN fn_in = {"fn", "raw"}
    /\ fn_in.fn = "unit"
    /\ IsSome(fn_out)
    /\ Unwrap(fn_out).transformed.ok
    /\ Unwrap(fn_out).served = None
    /\ fn_out' = Some([Unwrap(fn_out) EXCEPT !.served =
           Some(ShouldUseCachedOverlay("gemini",
                                       Unwrap(fn_out).transformed.val, now))])
    /\ UNCHANGED << fn_in, batchVars >>

UnitNext == ApplyNormalizeGemini \/ ApplyCheckGemini

UnitSpec == UnitInit /\ [][UnitNext]_vars

\* the expiry_date the normaliser wrote, in milliseconds
WrittenExpiryDate == Unwrap(fn_out).transformed.val.root.f["expiry_date"].v

UnitChecked ==
    /\ DOMAIN fn_in = {"fn", "raw"}
    /\ IsSome(fn_out)
    /\ IsSome(Unwrap(fn_out).served)

(***************************************************************************)
(* C35.  Every payload the gemini normaliser writes is served from the     *)
(* cache by the freshness check if and only if its expiry_date, read as    *)
(* milliseconds, is greater than now + 60000; a normalised payload whose   *)
(* expiry is in the past is never served.                                  *)
(***************************************************************************)
C35_UnitsAgree ==
    UnitChecked =>
        /\ Unwrap(Unwrap(fn_out).served)
               <=> BigGt(WrittenExpiryDate, BigAdd(now, BigOfInt(MIN_TTL_MS)))
        /\ BigGt(now, WrittenExpiryDate) => ~Unwrap(Unwrap(fn_out).served)

\* a written expiry of 1970 is served
C35_Witness ==
    /\ UnitChecked
    /\ BigGt(now, WrittenExpiryDate)
    /\ Unwrap(Unwrap(fn_out).served)

\* the units agree for every written expiry above 10^10 ms
C35_UnitsAgreeAboveThreshold ==
    (UnitChecked /\ BigGt(WrittenExpiryDate, EpochMsThreshold)) =>
        (Unwrap(Unwrap(fn_out).served)
             <=> BigGt(WrittenExpiryDate, BigAdd(now, BigOfInt(MIN_TTL_MS))))

(***************************************************************************)
(* C36.  For antigravity and gemini every overlay handed to a probe        *)
(* carries, when the resolve returns, an expiry greater than now + 60      *)
(* seconds, whether its content came from the cache or from a download.    *)
(***************************************************************************)
ExpiryChecked == {"antigravity", "gemini"}

\* the expiry the credential file of an overlay states, in milliseconds
CarriedExpiryMs(plugin_id, content) ==
    LET key == IF plugin_id = "antigravity" THEN "expiresAtMs"
               ELSE "expiry_date"
    IN  IF content.ok /\ content.root.t = "obj"
           /\ key \in DOMAIN content.root.f /\ content.root.f[key].t = "num"
        THEN Some(content.root.f[key].v)
        ELSE None

CarriesFreshExpiry(plugin_id, content) ==
    /\ IsSome(CarriedExpiryMs(plugin_id, content))
    /\ BigGt(Unwrap(CarriedExpiryMs(plugin_id, content)),
             BigAdd(now, BigOfInt(MIN_TTL_MS)))

\* the lookup or the store that ends a resolve with an overlay for the plugin
HandsOverlay(b, plugin_id) ==
    /\ LookupStep(b) \/ StoreStep(b)
    /\ plugin_id \notin DOMAIN overlays[b]
    /\ plugin_id \in DOMAIN overlays'[b]

\* C36: every step that hands an overlay to antigravity or gemini hands one
\* whose expiry is greater than now + 60000
C36_HandedOverlaysFresh ==
    [][\A b \in Batches : \A plugin_id \in ExpiryChecked :
           HandsOverlay(b, plugin_id) =>
               \A path \in DOMAIN overlays'[b][plugin_id] :
                   CarriesFreshExpiry(plugin_id,
                                      overlays'[b][plugin_id][path])]_vars

\* an overlay the lookup took from the cache carries a fresh expiry
C36_CachedOverlaysFresh ==
    [][\A b \in Batches : \A plugin_id \in ExpiryChecked :
           (HandsOverlay(b, plugin_id) /\ LookupStep(b)) =>
               \A path \in DOMAIN overlays'[b][plugin_id] :
                   CarriesFreshExpiry(plugin_id,
                                      overlays'[b][plugin_id][path])]_vars

\* a downloaded payload that has expired is in an overlay
C36_Witness ==
    \E b \in Batches : \E plugin_id \in ExpiryChecked :
        /\ plugin_id \in DOMAIN overlays[b]
        /\ \E path \in DOMAIN overlays[b][plugin_id] :
               /\ IsSome(CarriedExpiryMs(plugin_id,
                                         overlays[b][plugin_id][path]))
               /\ BigGt(now, Unwrap(CarriedExpiryMs(plugin_id,
                                        overlays[b][plugin_id][path])))

(***************************************************************************)
(* C37.  When the antigravity or the gemini normaliser derives the expiry  *)
(* from a TTL in seconds, now_ms + ttl_seconds * 1000 stays within the     *)
(* signed 64-bit range for every TTL the field parser accepts: the         *)
(* normaliser never overflows.                                             *)
(***************************************************************************)
Transformed ==
    /\ DOMAIN fn_in = {"fn", "plugin_id", "case"}
    /\ fn_in.fn = "transform"
    /\ IsSome(fn_out)

\* the TTL the payload states, as str::parse::<i64> reads it
StatedTtl ==
    ParsedTtl(ReadStringField(fn_in.case.raw.root.f, TtlKeys))

\* C37: no antigravity or gemini normalisation leaves the i64 range
C37_TtlWithinI64 ==
    (Transformed /\ fn_in.plugin_id \in ExpiryChecked) =>
        ~Unwrap(fn_out).fault

\* a TTL of i64::MAX seconds was parsed and the product left the i64 range
C37_Witness ==
    /\ Transformed
    /\ fn_in.plugin_id \in ExpiryChecked
    /\ fn_in.case.raw.ok /\ fn_in.case.raw.root.t = "obj"
    /\ StatedTtl = Some(I64Max)
    /\ Unwrap(fn_out).fault

(***************************************************************************)
(* The global shortcut (lib.rs 91-95, 1049-1102, 1231-1259).  The state is *)
(* the managed-shortcut slot and the shortcuts the operating system holds  *)
(* for the application; the last call is kept with the operations it made. *)
(***************************************************************************)
ShortcutArgs ==
    { None, Some(<< >>), Some(<< " " >>), Some(<< "Ctrl+A" >>),
      Some(<< " ", "Ctrl+A", " " >>), Some(<< "Ctrl+B" >>),
      Some(<< "Ctrl+C" >>) }

\* lines 1054-1061
NormalizedShortcut(shortcut) ==
    IF shortcut = None \/ Trim(Unwrap(shortcut)) = << >> THEN None
    ELSE Some(Trim(Unwrap(shortcut)))

ShortcutState(managed_shortcut, registered) ==
    [fn |-> "shortcut", managed_shortcut |-> managed_shortcut,
     registered |-> registered]

\* lines 1231-1259: the stored shortcut is registered at startup, the slot
\* set when that succeeded
ShortcutInit ==
    /\ Idle
    /\ \E stored \in {None, Some(<< " " >>), Some(<< "Ctrl+A", " " >>)} :
       \E register_ok \in BOOLEAN :
           LET shortcut == NormalizedShortcut(stored)
           IN  fn_in = IF IsSome(shortcut) /\ register_ok
                       THEN ShortcutState(shortcut, {Unwrap(shortcut)})
                       ELSE ShortcutState(None, {})

UnregisterCall(existing, ok) ==
    [op |-> "unregister", shortcut |-> existing, ok |-> ok]
RegisterCall(shortcut, ok) ==
    [op |-> "register", shortcut |-> shortcut, ok |-> ok]

\* update_global_shortcut
UpdateGlobalShortcut(shortcut, unregister_ok, register_ok) ==
    /\ DOMAIN fn_in = {"fn", "managed_shortcut", "registered"}
    /\ LET normalized_shortcut == NormalizedShortcut(shortcut)
           previous_shortcut == fn_in.managed_shortcut
           unregistered == IsSome(previous_shortcut) /\ unregister_ok
           after_unregister ==
               IF unregistered
               THEN ShortcutState(None,
                        fn_in.registered \ {Unwrap(previous_shortcut)})
               ELSE fn_in
           unregister_calls ==
               IF IsSome(previous_shortcut)
               THEN << UnregisterCall(Unwrap(previous_shortcut),
                                      unregister_ok) >>
               ELSE << >>
           Done(calls, ok) ==
               Some([previous_shortcut |-> previous_shortcut,
                     normalized_shortcut |-> normalized_shortcut,
                     calls |-> calls, ok |-> ok])
       IN  IF previous_shortcut = normalized_shortcut
           THEN /\ fn_in' = fn_in
                /\ fn_out' = Done(<< >>, TRUE)
           ELSE IF IsSome(normalized_shortcut)
           THEN /\ fn_in' =
                       IF register_ok
                       THEN ShortcutState(normalized_shortcut,
                                after_unregister.registered
                                    \cup {Unwrap(normalized_shortcut)})
                       ELSE after_unregister
                /\ fn_out' = Done(Append(unregister_calls,
                                     RegisterCall(Unwrap(normalized_shortcut),
                                                  register_ok)),
                                  register_ok)
           ELSE /\ fn_in' = ShortcutState(None, after_unregister.registered)
                /\ fn_out' = Done(unregister_calls, TRUE)
    /\ UNCHANGED batchVars

ShortcutNext ==
    \E shortcut \in ShortcutArgs :
    \E unregister_ok \in BOOLEAN : \E register_ok \in BOOLEAN :
        UpdateGlobalShortcut(shortcut, unregister_ok, register_ok)

ShortcutSpec == ShortcutInit /\ [][ShortcutNext]_vars

\* the slot names exactly what is registered
Aligned(state) ==
    state.registered = IF IsSome(state.managed_shortcut)
                       THEN {Unwrap(state.managed_shortcut)}
                       ELSE {}

LastCall == Unwrap(fn_out)

(***************************************************************************)
(* C38.  After any sequence of update_global_shortcut calls whose          *)
(* unregister and register steps may each succeed or fail, the slot names  *)
(* exactly the shortcut that is registered (none when it is empty), at     *)
(* most one managed shortcut is registered, and a call whose normalised    *)
(* shortcut equals the slot makes no unregister and no register call.      *)
(***************************************************************************)
C38_SlotMatchesRegistration ==
    /\ Aligned(fn_in)
    /\ Cardinality(fn_in.registered) <= 1
    /\ (IsSome(fn_out)
          /\ LastCall.previous_shortcut = LastCall.normalized_shortcut)
           => LastCall.calls = << >>

\* the unregister failed, the register succeeded: two shortcuts are held
C38_Witness ==
    /\ IsSome(fn_out)
    /\ LastCall.calls = << UnregisterCall(<< "Ctrl+A" >>, FALSE),
                           RegisterCall(<< "Ctrl+B" >>, TRUE) >>
    /\ fn_in.managed_shortcut = Some(<< "Ctrl+B" >>)
    /\ fn_in.registered = { << "Ctrl+A" >>, << "Ctrl+B" >> }

\* a call keeps the slot and the registration aligned unless its
\* unregister fails
C38_AlignedUnlessUnregisterFails ==
    [][(Aligned(fn_in)
          /\ \A i \in DOMAIN LastCall'.calls :
                 LastCall'.calls[i].op = "unregister" => LastCall'.calls[i].ok)
           => /\ Aligned(fn_in')
              /\ Cardinality(fn_in'.registered) <= 1]_vars

\* a call whose normalised shortcut is the slot makes no call
C38_UnchangedMakesNoCall ==
    (IsSome(fn_out)
       /\ LastCall.previous_shortcut = LastCall.normalized_shortcut)
        => LastCall.calls = << >>

(***************************************************************************)
(* The app_started gate (lib.rs 26-83, 1211).  The state is settings.json  *)
(* as it is on disk; every startup is a new process that opens the store,  *)
(* reads the day under the key of its version, and may track and save.     *)
(***************************************************************************)
APP_STARTED_TRACKED_DAY_KEY_PREFIX == "analytics.app_started_day."

\* app_started_day_key
AppStartedDayKey(version) == APP_STARTED_TRACKED_DAY_KEY_PREFIX \o version

Pad2(n) == IF n < 10 THEN "0" \o ToString(n) ELSE ToString(n)
Pad4(n) ==
    IF n < 10 THEN "000" \o ToString(n)
    ELSE IF n < 100 THEN "00" \o ToString(n)
    ELSE IF n < 1000 THEN "0" \o ToString(n)
    ELSE ToString(n)

\* today_utc_ymd: {:04}-{:02}-{:02}
TodayUtcYmd(date) ==
    Pad4(date.year) \o "-" \o Pad2(date.month) \o "-" \o Pad2(date.day)

\* a day always taken to differ from the stored one
ShouldTrackAppStarted_Always(last_tracked_day, today) == TRUE

\* should_track_app_started
ShouldTrackAppStarted(last_tracked_day, today) ==
    IF IsSome(last_tracked_day) THEN Unwrap(last_tracked_day) # today
    ELSE TRUE

\* Value::as_str on what the store holds under a key
AsStr(value) ==
    IF IsSome(value) /\ Unwrap(value).t = "str" THEN Some(Unwrap(value).s.id)
    ELSE None

Versions == {"0.6.2", "0.6.3"}
Dates ==
    { [year |-> 2026, month |-> 2, day |-> 11],
      [year |-> 2026, month |-> 2, day |-> 12],
      [year |-> 2026, month |-> 12, day |-> 1] }

Settings(store) == [fn |-> "app_started", store |-> store]

StartupInit ==
    /\ Idle
    /\ \E store \in { EmptyMap,
                      MapInsert(EmptyMap, AppStartedDayKey("0.6.2"),
                                JNum(BigOfInt(7))) } :
           fn_in = Settings(store)

\* track_app_started_once_per_day_per_version on a desktop build; opened and
\* saved are what the store plugin answers to store() and save()
TrackAppStartedOncePerDayPerVersion(version, date, opened, saved) ==
    /\ DOMAIN fn_in = {"fn", "store"}
    /\ LET key == AppStartedDayKey(version)
           today == TodayUtcYmd(date)
           last_tracked_day == AsStr(MapGet(fn_in.store, key))
           tracked == opened /\ ShouldTrackAppStarted(last_tracked_day, today)
       IN  /\ fn_in' = IF tracked /\ saved
                       THEN Settings(MapInsert(fn_in.store, key, Token(today)))
                       ELSE fn_in
           /\ fn_out' = Some([version |-> version, date |-> date,
                              opened |-> opened, tracked |-> tracked,
                              saved |-> tracked /\ saved])
    /\ UNCHANGED batchVars

StartupNext ==
    \E version \in Versions : \E date \in Dates :
    \E opened \in BOOLEAN : \E saved \in BOOLEAN :
        TrackAppStartedOncePerDayPerVersion(version, date, opened, saved)

StartupSpec == StartupInit /\ [][StartupNext]_vars

\* the day stored under a version's key, as a date: none when the key is
\* absent or holds no day
StoredDate(state, version) ==
    LET key == "analytics.app_started_day." \o version
    IN  IF key \in DOMAIN state.store /\ state.store[key].t = "str"
        THEN {d \in Dates : TodayUtcYmd(d) = state.store[key].s.id}
        ELSE {}

\* the startup of this step and the one before it
ThisStartup == Unwrap(fn_out')
LastStartup == Unwrap(fn_out)

DueToday == StoredDate(fn_in, ThisStartup.version) # {ThisStartup.date}

SameDaySameVersion ==
    /\ IsSome(fn_out)
    /\ LastStartup.version = ThisStartup.version
    /\ LastStartup.date = ThisStartup.date

(***************************************************************************)
(* C39.  app_started is tracked on a startup if and only if no day is      *)
(* stored under the key of the current version or the stored day is not    *)
(* today's UTC date; after a tracked startup the stored day is today, so a *)
(* further startup on the same day with the same version does not track    *)
(* again, while a startup with a different version reads a different key.  *)
(***************************************************************************)
C39_OncePerDayPerVersion ==
    [][/\ ThisStartup.tracked <=> DueToday
       /\ ThisStartup.tracked =>
              StoredDate(fn_in', ThisStartup.version) = {ThisStartup.date}
       /\ (SameDaySameVersion /\ LastStartup.tracked) => ~ThisStartup.tracked
       /\ \A v \in Versions \ {ThisStartup.version} :
              /\ AppStartedDayKey(v) # AppStartedDayKey(ThisStartup.version)
              /\ StoredDate(fn_in', v) = StoredDate(fn_in, v)]_vars

(***************************************************************************)
(* C39, as the code has it.  A startup that cannot open the settings store *)
(* tracks nothing; one that opens it tracks if and only if no day is       *)
(* stored under the key of its version or the stored day is not today.     *)
(* After a tracked startup whose save succeeded the stored day is today    *)
(* and the next startup of that day and version does not track; when the   *)
(* save failed the stored day is as before.  Another version's key is      *)
(* another key and is never touched.                                       *)
(***************************************************************************)
C39_OncePerDayPerVersionWhenStored ==
    [][/\ ThisStartup.tracked <=> (ThisStartup.opened /\ DueToday)
       /\ (ThisStartup.tracked /\ ThisStartup.saved) =>
              StoredDate(fn_in', ThisStartup.version) = {ThisStartup.date}
       /\ ~(ThisStartup.tracked /\ ThisStartup.saved) => fn_in' = fn_in
       /\ (SameDaySameVersion /\ LastStartup.tracked /\ LastStartup.saved)
              => ~ThisStartup.tracked
       /\ \A v \in Versions \ {ThisStartup.version} :
              /\ AppStartedDayKey(v) # AppStartedDayKey(ThisStartup.version)
              /\ StoredDate(fn_in', v) = StoredDate(fn_in, v)]_vars

\* a startup found today under its key and did not track, the other
\* version having been tracked on another day
C39_Witness ==
    /\ IsSome(fn_out)
    /\ LastStartup.opened /\ ~LastStartup.tracked
    /\ StoredDate(fn_in, LastStartup.version) = {LastStartup.date}
    /\ \E v \in Versions \ {LastStartup.version} :
           /\ StoredDate(fn_in, v) # {}
           /\ StoredDate(fn_in, v) # {LastStartup.date}
====
